---- MODULE Spec2Model ----
(***************************************************************************)
(* MineWatch change-detection core: the pipeline orchestrator              *)
(* (backend/analysis_pipeline.py run_analysis), the greedy scene selector  *)
(* (_find_covering_scenes, coverage_validator.find_optimal_scenes) and the *)
(* temporal epoch grouper (utils/temporal_grouping.py).                    *)
(*                                                                         *)
(* Geometry is discretised: the mine boundary is the set of area cells     *)
(* 1..AreaUnits, cell 0 lies outside the boundary, a footprint is a set of *)
(* cells and area is cardinality.  A percentage p is kept exactly as the   *)
(* integer p * AreaUnits ("scaled percent"), so that                       *)
(* (area / boundary_area) * 100 >= t  is  area * 100 >= t * AreaUnits.     *)
(* Dates are integer days, epoch timestamps integer minutes.               *)
(***************************************************************************)
EXTENDS Integers, Sequences, FiniteSets, TLC

VARIABLES
    \* ---- run_analysis: arguments
    db_conn, mine_area, baseline_scene, latest_scene, run_id, catalog,
    \* ---- run_analysis: the build it runs against
    clip_api,
    \* ---- run_analysis: locals and control
    pc, baseline_footprint_coverage, latest_footprint_coverage,
    covering_scenes, path, features, zones, error, grids, artifacts,
    \* ---- run_analysis: history of the run
    work, swallowed, stages,
    \* ---- greedy scene selector
    sel_fn, sel_table, sel_target, sel_params, sel_rows, sel_i, sel_state, sel_pc,
    \* ---- epoch grouper
    ep_fn, ep_input, ep_tol, ep_min_cov, ep_recs, ep_i, epochs, current_epoch,
    current_epoch_time, coverage_sets, latest_set, baseline_set, ep_error, ep_pc,
    \* ---- alert rule engine
    rl_file, rl_rules, rl_zones, rl_context, rl_new_config, rl_read, rl_updates,
    rl_i, rl_j, rl_alerts, rl_results, rl_pc,
    \* ---- spectral indices
    idx_fn, idx_bands, idx_out, idx_pc,
    \* ---- shared download cache
    dl_file, dl_pc, dl_pos, dl_read,
    \* ---- rule configuration file under a concurrent update
    cf_file, cf_flushed, cf_old, cf_new, cf_upd_pc, cf_upd_rules, cf_reader,
    cf_reader_pc, cf_seen

pipeVars == <<db_conn, mine_area, baseline_scene, latest_scene, run_id, catalog,
              clip_api, pc, baseline_footprint_coverage,
              latest_footprint_coverage, covering_scenes, path, features, zones,
              error, work, swallowed, stages, grids, artifacts>>
\* the clipped arrays and the files written by the run
outVars == <<grids, artifacts>>
selVars == <<sel_fn, sel_table, sel_target, sel_params, sel_rows, sel_i,
             sel_state, sel_pc>>
epVars == <<ep_fn, ep_input, ep_tol, ep_min_cov, ep_recs, ep_i, epochs,
            current_epoch, current_epoch_time, coverage_sets, latest_set,
            baseline_set, ep_error, ep_pc>>
ruleVars == <<rl_file, rl_rules, rl_zones, rl_context, rl_new_config, rl_read,
              rl_updates, rl_i, rl_j, rl_alerts, rl_results, rl_pc>>
idxVars == <<idx_fn, idx_bands, idx_out, idx_pc>>
cacheVars == <<dl_file, dl_pc, dl_pos, dl_read>>
cfgVars == <<cf_file, cf_flushed, cf_old, cf_new, cf_upd_pc, cf_upd_rules,
             cf_reader, cf_reader_pc, cf_seen>>
vars == <<pipeVars, selVars, epVars, ruleVars, idxVars, cacheVars, cfgVars>>

(***************************************************************************)
(* Bounds of the model.                                                    *)
(***************************************************************************)
\* number of area cells of the boundary
AreaUnits == 100
\* longest imagery_scene table handed to the scene selector
MaxRows == 3
\* longest scene list handed to the epoch grouper
MaxScenes == 3

(***************************************************************************)
(* Program constants (backend/config.py).                                  *)
(***************************************************************************)
MINIMUM_REQUIRED == 95
MOSAIC_THRESHOLD == 92
MAX_DATE_DIFF_DAYS == 30
MAX_CLOUD_COVER == 80
SCENE_SEARCH_MULTIPLIER == 3
REQUIRE_DB_CONN == TRUE
FAIL_ON_INSUFFICIENT_COVERAGE == TRUE
VALIDATE_POST_MOSAIC == TRUE
\* the arguments run_analysis passes to _find_covering_scenes
RUN_MIN_COVERAGE == 95
RUN_MAX_SCENES == 4

(***************************************************************************)
(* Values.                                                                 *)
(***************************************************************************)
\* Python None, for a uri or a run_id
None == "None"
\* SQL NULL / Python None for a cloud_cover
NoCloud == -1

Boundary == 1 .. AreaUnits
Area(g) == Cardinality(g)
\* (area / boundary_area) * 100.0, as a scaled percent
CoveragePercent(g) == Area(g) * 100
\* coverage_percent >= t and coverage_percent < t, for a scaled percent and
\* a threshold in percent
AtLeast(cov, t) == cov >= t * AreaUnits
Below(cov, t) == cov < t * AreaUnits

\* a footprint_geojson column: a geometry, SQL NULL, or text json.loads or
\* extract_boundary_geometry rejects
Geom(cells) == [kind |-> "geom", cells |-> cells]
NullFootprint == [kind |-> "null", cells |-> {}]
Malformed == [kind |-> "malformed", cells |-> {}]

\* footprints used by the catalogs (cell 0 lies outside the boundary)
Left55 == Geom(1 .. 55)
Right55 == Geom((AreaUnits - 54) .. AreaUnits)
Full == Geom(0 .. AreaUnits)
Mid == Geom(50 .. 70)
West30 == Geom(1 .. 30)
Most93 == Geom(1 .. 93)
Outside == Geom({0})

\* one row of the imagery_scene table: acquired_at (day), cloud_cover,
\* footprint_geojson; id and uri follow from the row's position
SceneUri(i) == <<"S1", "S2", "S3", "S4", "S5">>[i]
Row(day, cloud, fp) == [day |-> day, cloud |-> cloud, fp |-> fp]

(***************************************************************************)
(* Greedy scene selector: _find_covering_scenes (analysis_pipeline.py) and *)
(* find_optimal_scenes (utils/coverage_validator.py).                      *)
(***************************************************************************)
Abs(x) == IF x < 0 THEN 0 - x ELSE x

\* the rows of a table as the query sees them: id, uri and
\* ABS(julianday(acquired_at) - julianday(target)) AS date_diff
QueryRow(table, i, target) ==
    [id |-> i, uri |-> SceneUri(i), fp |-> table[i].fp,
     cloud |-> table[i].cloud, date_diff |-> Abs(table[i].day - target)]

\* COALESCE(cloud_cover, 100)
CoalesceCloud(c) == IF c = NoCloud THEN 100 ELSE c

\* ORDER BY date_diff ASC, COALESCE(cloud_cover, 100) ASC
OrderedBefore(a, b) ==
    \/ a.date_diff < b.date_diff
    \/ a.date_diff = b.date_diff /\ CoalesceCloud(a.cloud) < CoalesceCloud(b.cloud)

\* WHERE footprint_geojson IS NOT NULL
\*   AND (cloud_cover IS NULL OR cloud_cover <= MAX_CLOUD_COVER)
InWhere(r) ==
    /\ r.fp.kind # "null"
    /\ (r.cloud = NoCloud \/ r.cloud <= MAX_CLOUD_COVER)

RECURSIVE InsertOrdered(_, _)
InsertOrdered(r, sorted) ==
    IF sorted = <<>> THEN <<r>>
    ELSE IF OrderedBefore(r, Head(sorted)) THEN <<r>> \o sorted
    ELSE <<Head(sorted)>> \o InsertOrdered(r, Tail(sorted))

\* rows of equal sort key keep their table order
RECURSIVE SortRows(_)
SortRows(rows) ==
    IF rows = <<>> THEN <<>>
    ELSE InsertOrdered(rows[Len(rows)], SortRows(SubSeq(rows, 1, Len(rows) - 1)))

RECURSIVE WhereRows(_, _, _)
WhereRows(table, i, target) ==
    IF i > Len(table) THEN <<>>
    ELSE (IF InWhere(QueryRow(table, i, target))
          THEN <<QueryRow(table, i, target)>> ELSE <<>>)
         \o WhereRows(table, i + 1, target)

\* variant: the query without its LIMIT
Limit_None(rows, n) == rows
\* LIMIT ?
Limit(rows, n) == SubSeq(rows, 1, IF Len(rows) < n THEN Len(rows) ELSE n)

\* the SELECT of _find_covering_scenes
QueryCandidates(table, target, max_scenes) ==
    Limit(SortRows(WhereRows(table, 1, target)),
          max_scenes * SCENE_SEARCH_MULTIPLIER)

\* the locals of the loop: selected_scenes, covered_geom (None until the
\* first scene), coverage_percent, whether the loop has hit a break, and
\* how many candidates raised inside the loop's try
SelStart ==
    [selected_scenes |-> <<>>, covered_none |-> TRUE, covered_geom |-> {},
     coverage_percent |-> 0, stopped |-> FALSE, errors |-> 0]

\* variant: the contribution assigned instead of merged
MergeCoverage_Replace(covered, contribution) == contribution

\* covered_geom after a scene whose contribution adds coverage
MergeCoverage(covered, contribution) == covered \cup contribution

\* lines 274-291 (coverage_validator.py lines 327-342): the scene
\* intersects the boundary
AddScene(s, row, min_coverage_percent) ==
    LET scene_contribution == Boundary \cap row.fp.cells
        adds == s.covered_none \/ (scene_contribution \ s.covered_geom) # {}
        covered == IF s.covered_none THEN scene_contribution
                   ELSE IF adds THEN MergeCoverage(s.covered_geom, scene_contribution)
                   ELSE s.covered_geom
        selected == IF adds THEN Append(s.selected_scenes, row.id)
                    ELSE s.selected_scenes
    IN [s EXCEPT !.selected_scenes = selected,
                 !.covered_none = FALSE,
                 !.covered_geom = covered,
                 !.coverage_percent = CoveragePercent(covered),
                 !.stopped = AtLeast(CoveragePercent(covered), min_coverage_percent)]

\* lines 293-294: if len(selected_scenes) >= max_scenes: break
StopAtMax(s, max_scenes) ==
    [s EXCEPT !.stopped = @ \/ Len(s.selected_scenes) >= max_scenes]

\* whether a row taken from the connection has a .get method: a
\* sqlite3.Row (row_factory of get_db) has none, a mapping has
RowHasGet(rows_kind) == rows_kind = "mapping"

\* one pass of the body of "for row in rows" of _find_covering_scenes
CoveringStep(s, row, p) ==
    IF row.date_diff > p.max_date_diff_days THEN s
    ELSE IF ~RowHasGet(p.rows_kind) THEN [s EXCEPT !.errors = @ + 1]
    ELSE IF row.cloud # NoCloud /\ row.cloud # 0 /\ row.cloud > MAX_CLOUD_COVER THEN s
    ELSE IF row.fp.kind = "malformed" THEN [s EXCEPT !.errors = @ + 1]
    ELSE IF Boundary \cap row.fp.cells = {} THEN s
    ELSE StopAtMax(AddScene(s, row, p.min_coverage_percent), p.max_scenes)

RECURSIVE CoveringLoop(_, _, _, _)
CoveringLoop(s, rows, i, p) ==
    IF i > Len(rows) \/ s.stopped THEN s
    ELSE CoveringLoop(CoveringStep(s, rows[i], p), rows, i + 1, p)

\* _find_covering_scenes(db_conn, target_date, boundary, ...): the final
\* locals; the function returns their selected_scenes
FindCoveringScenes(table, target, p) ==
    CoveringLoop(SelStart, QueryCandidates(table, target, p.max_scenes), 1, p)

\* the sort key of find_optimal_scenes: x.get('cloud_cover', 100) or 100
OptimalKey(c) == IF c = NoCloud \/ c = 0 THEN 100 ELSE c

RECURSIVE InsertByCloud(_, _)
InsertByCloud(r, sorted) ==
    IF sorted = <<>> THEN <<r>>
    ELSE IF OptimalKey(r.cloud) < OptimalKey(Head(sorted).cloud) THEN <<r>> \o sorted
    ELSE <<Head(sorted)>> \o InsertByCloud(r, Tail(sorted))

\* sorted(scene_footprints, key=...): stable
RECURSIVE SortByCloud(_)
SortByCloud(rows) ==
    IF rows = <<>> THEN <<>>
    ELSE InsertByCloud(rows[Len(rows)], SortByCloud(SubSeq(rows, 1, Len(rows) - 1)))

\* the scene_footprints argument made of a table: every row, no filter
AllRows(table, target) == [i \in 1 .. Len(table) |-> QueryRow(table, i, target)]

\* extract_boundary_geometry(scene['footprint']) raises, outside any try
OptimalRaises(row) == row.fp.kind # "geom"

\* one pass of the body of "for scene in scene_footprints" of
\* find_optimal_scenes, for a footprint that parses
OptimalStep(s, row, p) ==
    IF Boundary \cap row.fp.cells = {} THEN s
    ELSE AddScene(s, row, p.min_coverage_percent)

(***************************************************************************)
(* run_analysis (analysis_pipeline.py): arguments.                         *)
(***************************************************************************)
\* an ImageryScene argument; given = FALSE is the argument None
Scene(id, source, acquired_at, cloud_cover, uri) ==
    [given |-> TRUE, id |-> id, source |-> source, acquired_at |-> acquired_at,
     cloud_cover |-> cloud_cover, uri |-> uri]
NoScene ==
    [given |-> FALSE, id |-> 0, source |-> "", acquired_at |-> 0,
     cloud_cover |-> NoCloud, uri |-> None]

SceneUris == {"S1", "S2", "S3", "S4", None}
SceneArgs ==
    {NoScene}
    \cup {Scene(1, "sentinel-2-l2a", 0, 10, u) : u \in SceneUris}
    \cup {Scene(2, "landsat-8", 100, NoCloud, u) : u \in SceneUris}
    \cup {Scene(2, "sentinel-2-l2a", 20, 10, "S2")}

\* db_conn: None, a connection whose rows are sqlite3.Row (get_db in
\* main.py), or one whose row factory yields mappings
DbConns == {None, "sqlite3.Row", "mapping"}
\* mine_area: None, a dict without "boundary", a dict with a boundary
MineAreas == {None, "no_boundary", "with_boundary"}
RunIds == {None, "7"}

\* contents of the imagery_scene table (row i has uri SceneUri(i))
Catalogs ==
    { <<Row(0, 10, Left55), Row(1, NoCloud, Right55), Row(100, 10, Full)>>,
      <<Row(0, 10, Full), Row(100, 10, Left55), Row(101, 20, Right55)>>,
      <<Row(0, 10, Most93), Row(1, 10, Right55), Row(100, 10, Full)>>,
      <<Row(0, 10, Malformed), Row(2, 10, Left55), Row(3, NoCloud, Right55),
        Row(100, 10, Full)>>,
      <<Row(0, 10, Left55), Row(1, 10, Right55), Row(100, 10, Left55),
        Row(101, 10, Right55)>>,
      <<Row(0, 10, Left55), Row(20, 10, Right55)>> }

\* clip_raster_to_geometry as run_analysis calls it after the first band,
\* with (path, geometry, target_shape, transform): utils/spatial.py defines
\* it with two parameters, so that call raises TypeError; "on_grid" is the
\* grid-forcing function run_analysis and verify_resampling_fix.py are
\* written against
ClipTwoArg == "two_arg"
ClipOnGrid == "on_grid"
ClipApis == {ClipTwoArg, ClipOnGrid}
\* the call clip_raster_to_geometry(path, geometry, target_shape, transform)
ClipWithGrid(api) == IF api = ClipTwoArg THEN "TypeError" ELSE "ok"

(***************************************************************************)
(* run_analysis: errors.                                                   *)
(***************************************************************************)
\* an exception: its class, and the attributes the classes of exceptions.py
\* carry (stage and run_id of AnalysisError, band_name and scene_count of
\* MosaicError, the class of original_error)
NoError ==
    [type |-> "none", stage |-> "", run_id |-> None, band_name |-> None,
     scene_count |-> 0, cause |-> None]
Exc(type) == [NoError EXCEPT !.type = type]
\* AnalysisError(message, stage=..., run_id=...)
AnalysisErr(stage, rid) ==
    [NoError EXCEPT !.type = "AnalysisError", !.stage = stage, !.run_id = rid]
\* variant: MosaicError(message)
MosaicErr_Bare(band_name, scene_count) == Exc("MosaicError")
\* MosaicError(message, band_name=band, scene_count=len(band_paths[band]))
MosaicErr(band_name, scene_count) ==
    [NoError EXCEPT !.type = "MosaicError", !.band_name = band_name,
                    !.scene_count = scene_count]

\* the first except clause of run_analysis
KnownErrors ==
    {"InsufficientCoverageError", "MosaicError", "IdenticalScenesError",
     "DatabaseConnectionError", "TemporalInconsistencyError"}

\* variant: no second except clause, the exception leaves as it is
Reraise_Raw(exc, rid) == exc

\* what leaves run_analysis when exc is raised inside its try block
Reraise(exc, rid) ==
    IF exc.type \in KnownErrors THEN exc
    ELSE [AnalysisErr("unknown", rid) EXCEPT !.cause = exc.type]

\* baseline_scene.uri == latest_scene.uri
\* variant: scenes compared by their id instead of their uri
UrisIdentical_ById(b, l) == b.id = l.id

UrisIdentical(b, l) == b.uri = l.uri

\* variant: the early validation without the comparison of the uris
ValidationFailure_NoUriCheck(db, area, b, l, rid) ==
    IF REQUIRE_DB_CONN /\ db = None THEN Exc("DatabaseConnectionError")
    ELSE IF ~b.given \/ ~l.given \/ area = None THEN AnalysisErr("validation", rid)
    ELSE NoError

\* lines 416-436, in the order of the code: what the early validation raises
ValidationFailure(db, area, b, l, rid) ==
    IF REQUIRE_DB_CONN /\ db = None THEN Exc("DatabaseConnectionError")
    ELSE IF ~b.given \/ ~l.given \/ area = None THEN AnalysisErr("validation", rid)
    ELSE IF UrisIdentical(b, l) THEN Exc("IdenticalScenesError")
    ELSE NoError

(***************************************************************************)
(* run_analysis: coverage.                                                 *)
(***************************************************************************)
\* rows of the table with the given uri ("WHERE uri = ?"; NULL matches none)
RowsWithUri(table, uri) ==
    {i \in 1 .. Len(table) : uri # None /\ SceneUri(i) = uri}

\* _check_scene_footprint_coverage: the coverage it returns and whether it
\* returned 0.0 from its except clause
CheckSceneFootprintCoverage(table, uri) ==
    IF RowsWithUri(table, uri) = {} THEN [coverage |-> 0, swallowed |-> FALSE]
    ELSE LET row == table[CHOOSE i \in RowsWithUri(table, uri) : TRUE]
         IN IF row.fp.kind = "null" THEN [coverage |-> 0, swallowed |-> FALSE]
            ELSE IF row.fp.kind = "malformed" THEN [coverage |-> 0, swallowed |-> TRUE]
            ELSE [coverage |-> CoveragePercent(Boundary \cap row.fp.cells),
                  swallowed |-> FALSE]

\* baseline_needs_mosaic / latest_needs_mosaic
\* variant: the decision taken against MINIMUM_REQUIRED
NeedsMosaic_MinimumRequired(coverage) == Below(coverage, MINIMUM_REQUIRED)

NeedsMosaic(coverage) == Below(coverage, MOSAIC_THRESHOLD)

\* the arguments of the two _find_covering_scenes calls of run_analysis
RunParams(db) ==
    [min_coverage_percent |-> RUN_MIN_COVERAGE, max_scenes |-> RUN_MAX_SCENES,
     max_date_diff_days |-> MAX_DATE_DIFF_DAYS,
     rows_kind |-> db]

(***************************************************************************)
(* run_analysis: bands, grids and files.                                   *)
(***************************************************************************)
\* required_bands, in the order of the list
RequiredBands == <<"B02", "B03", "B04", "B08", "B11">>
BandSet == { RequiredBands[k] : k \in 1..Len(RequiredBands) }
\* the ten bands stage 2 clips
Slots == {"baseline", "latest"} \X BandSet
FirstSlot == <<"baseline", "B04">>

\* the grid of a raster: its resolution in metres and the raster it was cut
\* from; B11 comes at 20 m, the four other bands at 10 m
NoGrid == [res |-> 0, origin |-> "none"]
NoGrids == [s \in Slots |-> NoGrid]
NativeGrid(band, origin) ==
    [res |-> IF band = "B11" THEN 20 ELSE 10, origin |-> origin]

\* "if run_id": None and 0 are not a run identifier
Truthy(rid) == rid # None
\* variant: the prefix without the run
OutputPrefix_NoRun(rid, label) == [run |-> None, label |-> label]
\* f"run{run_id}_baseline" if run_id else "baseline"
OutputPrefix(rid, label) ==
    [run |-> IF Truthy(rid) THEN rid ELSE None, label |-> label]
\* a file name: MOSAIC_DIR / f"{output_prefix}_{band}.tif" and
\* f"{output_prefix}_{band}_clipped.tif", INDEX_DIR /
\* f"run{run_id}_{scene_label}_{index_type}.tif"
FileName(prefix, item, kind) ==
    [run |-> prefix.run, label |-> prefix.label, item |-> item, kind |-> kind]
\* the files create_band_mosaic_set writes for the bands it can mosaic
MosaicFiles(prefix, bands, clipped) ==
    { FileName(prefix, b, "mosaic") : b \in bands }
        \cup (IF clipped THEN { FileName(prefix, b, "clipped") : b \in bands }
              ELSE {})
IndexTypes == {"ndvi", "ndwi", "bsi"}
\* the files generate_index and generate_change_preview write
IndexFiles(rid) ==
    { FileName([run |-> rid, label |-> l], i, "index")
        : l \in {"baseline", "latest", "change"}, i \in IndexTypes }

(***************************************************************************)
(* run_analysis: the run, one action per step of the code.  pc names the   *)
(* step that runs next; "done" is the return of (zones, alerts), "failed"  *)
(* an exception leaving the function.                                      *)
(***************************************************************************)
Epochs == {"baseline", "latest"}
SceneOf(e) == IF e = "baseline" THEN baseline_scene ELSE latest_scene
CoverageOf(e) ==
    IF e = "baseline" THEN baseline_footprint_coverage
    ELSE latest_footprint_coverage
PcSearch(e) == IF e = "baseline" THEN "b_search" ELSE "l_search"
PcMosaic(e) == IF e = "baseline" THEN "b_mosaic" ELSE "l_mosaic"
PcDownload(e) == IF e = "baseline" THEN "b_download" ELSE "l_download"

\* lines 483-498 and 554-569: where an epoch starts, given the coverage of
\* its scene; "insufficient" is the raise of lines 489 and 560
EpochEntry(e, coverage, db) ==
    IF NeedsMosaic(coverage) /\ db = None
    THEN (IF FAIL_ON_INSUFFICIENT_COVERAGE THEN "insufficient" ELSE PcDownload(e))
    ELSE IF NeedsMosaic(coverage) THEN PcSearch(e)
    ELSE PcDownload(e)

\* variant: stage 2 entered as soon as the baseline bands are on disk
AfterEpoch_SkipLatest(e, latest_coverage, db) == "align"

\* the step after an epoch's bands are on disk: the latest epoch after the
\* baseline epoch, stage 2 after the latest epoch
AfterEpoch(e, latest_coverage, db) ==
    IF e = "baseline" THEN EpochEntry("latest", latest_coverage, db) ELSE "align"

\* the stage of the run a step belongs to
StageOf(p) ==
    CASE p \in {"validate", "init"} -> "Validating"
      [] p \in {"footprint", "b_search", "l_search"} -> "ResolvingCoverage"
      [] p \in {"b_mosaic", "l_mosaic"} -> "Mosaicking"
      [] p \in {"b_download", "l_download"} -> "DirectDownload"
      [] p = "align" -> "Aligning"
      [] p = "indices" -> "ComputingIndices"
      [] p = "detect" -> "DetectingChange"
      [] p = "alerts" -> "EvaluatingAlerts"
      [] p = "done" -> "Done"
      [] OTHER -> "Failed"

\* an exception leaves run_analysis: raised before the try block it leaves
\* as it is, raised inside it passes the except clauses
Fail(exc) ==
    /\ pc' = "failed"
    /\ error' = exc
    /\ stages' = Append(stages, "Failed")
FailInTry(exc) == Fail(Reraise(exc, run_id))

InsufficientCoverage == Exc("InsufficientCoverageError")

\* go to step p, or raise InsufficientCoverageError when p is "insufficient"
GoTo(p) ==
    IF p = "insufficient" THEN FailInTry(InsufficientCoverage)
    ELSE /\ pc' = p
         /\ error' = error
         /\ stages' = IF StageOf(p) = StageOf(pc) THEN stages
                       ELSE Append(stages, StageOf(p))

args == <<db_conn, mine_area, baseline_scene, latest_scene, run_id, catalog, clip_api>>

\* lines 411-440
Validate ==
    /\ pc = "validate"
    /\ LET f == ValidationFailure(db_conn, mine_area, baseline_scene,
                                  latest_scene, run_id)
       IN IF f.type # "none" THEN Fail(f) ELSE GoTo("init")
    /\ UNCHANGED <<selVars, epVars, ruleVars, idxVars, cacheVars, cfgVars, features, outVars, args, baseline_footprint_coverage, latest_footprint_coverage,
                   covering_scenes, path, zones, work, swallowed>>

\* lines 442-462: geometry = mine_area.get("boundary")
Initialize ==
    /\ pc = "init"
    /\ IF mine_area # "with_boundary"
       THEN FailInTry(AnalysisErr("initialization", run_id))
       ELSE GoTo("footprint")
    /\ UNCHANGED <<selVars, epVars, ruleVars, idxVars, cacheVars, cfgVars, features, outVars, args, baseline_footprint_coverage, latest_footprint_coverage,
                   covering_scenes, path, zones, work, swallowed>>

\* lines 464-498: the two footprint lookups and the baseline decision
CheckFootprints ==
    /\ pc = "footprint"
    /\ LET b == IF db_conn # None
                THEN CheckSceneFootprintCoverage(catalog, baseline_scene.uri)
                ELSE [coverage |-> 0, swallowed |-> FALSE]
           l == IF db_conn # None
                THEN CheckSceneFootprintCoverage(catalog, latest_scene.uri)
                ELSE [coverage |-> 0, swallowed |-> FALSE]
       IN /\ baseline_footprint_coverage' = b.coverage
          /\ latest_footprint_coverage' = l.coverage
          /\ swallowed' = IF b.swallowed \/ l.swallowed
                          THEN swallowed \cup {"footprint"} ELSE swallowed
          /\ work' = IF db_conn # None THEN work \cup {"footprint_lookup"} ELSE work
          /\ GoTo(EpochEntry("baseline", b.coverage, db_conn))
    /\ UNCHANGED <<selVars, epVars, ruleVars, idxVars, cacheVars, cfgVars, features, outVars, args, covering_scenes, path, zones>>

\* lines 498-537 and 569-608: the scene search of an epoch and what follows
\* from the number of scenes found
Search(e) ==
    /\ pc = PcSearch(e)
    /\ work' = work \cup {"scene_search"}
    /\ \/ \* db_conn.execute raises
          /\ FailInTry(Exc("OperationalError"))
          /\ UNCHANGED <<covering_scenes, swallowed>>
       \/ LET found == FindCoveringScenes(catalog, SceneOf(e).acquired_at,
                                          RunParams(db_conn))
          IN /\ covering_scenes' = found.selected_scenes
             /\ swallowed' = IF found.errors > 0
                             THEN swallowed \cup {"candidate"} ELSE swallowed
             /\ IF Len(found.selected_scenes) > 1 THEN GoTo(PcMosaic(e))
                ELSE IF Below(CoverageOf(e), MINIMUM_REQUIRED)
                        /\ FAIL_ON_INSUFFICIENT_COVERAGE
                THEN GoTo("insufficient")
                ELSE GoTo(PcDownload(e))
    /\ UNCHANGED <<selVars, epVars, ruleVars, idxVars, cacheVars, cfgVars, features, outVars, args, baseline_footprint_coverage, latest_footprint_coverage,
                   path, zones>>

\* what _download_and_mosaic_bands can do with more than one scene: a
\* download raises; a band's mosaic is not created; a band's mosaic fails
\* the post-mosaic validation; the clip of a mosaic fails and the unclipped
\* mosaic is used; all mosaics are created, clipped and valid
MosaicOutcomes ==
    {"download_error", "mosaic_failed", "mosaic_invalid", "clip_failed", "ok"}

\* lines 510-519 and 581-590, _download_and_mosaic_bands lines 332-374
Mosaic(e) ==
    /\ pc = PcMosaic(e)
    /\ \E outcome \in MosaicOutcomes :
          /\ work' = work \cup (IF outcome = "download_error" THEN {"download"}
                                ELSE {"download", "mosaic"})
          /\ swallowed' = IF outcome = "clip_failed"
                          THEN swallowed \cup {"clip"} ELSE swallowed
          /\ \E band \in BandSet :
               LET prefix == OutputPrefix(run_id, e)
                   raised == MosaicErr(band, Len(covering_scenes))
               IN  CASE outcome = "download_error" ->
                          /\ FailInTry(Exc("RequestException"))
                          /\ path' = path
                          /\ artifacts' = artifacts
                     [] outcome = "mosaic_failed" ->
                          /\ FailInTry(raised)
                          /\ path' = path
                          /\ artifacts' = artifacts
                                 \cup MosaicFiles(prefix, BandSet \ {band}, TRUE)
                     [] outcome = "mosaic_invalid" ->
                          /\ artifacts' = artifacts
                                 \cup MosaicFiles(prefix, BandSet, TRUE)
                          /\ IF VALIDATE_POST_MOSAIC
                             THEN FailInTry(raised) /\ path' = path
                             ELSE /\ path' = [path EXCEPT ![e] = "mosaic"]
                                  /\ GoTo(AfterEpoch(e, latest_footprint_coverage,
                                                     db_conn))
                     [] OTHER ->
                          /\ artifacts' = artifacts
                                 \cup MosaicFiles(prefix, BandSet,
                                                  outcome # "clip_failed")
                          /\ path' = [path EXCEPT ![e] = "mosaic"]
                          /\ GoTo(AfterEpoch(e, latest_footprint_coverage,
                                             db_conn))
    /\ UNCHANGED <<selVars, epVars, ruleVars, idxVars, cacheVars, cfgVars, features, args, grids,
                   baseline_footprint_coverage, latest_footprint_coverage,
                   covering_scenes, zones>>

\* lines 539-552 and 610-623: download_sentinel2_bands_with_validation of
\* the epoch's own scene; its coverage verdict is not read
Download(e) ==
    /\ pc = PcDownload(e)
    /\ work' = work \cup {"download"}
    /\ \/ FailInTry(Exc("RequestException")) /\ path' = path
       \/ /\ path' = [path EXCEPT ![e] = "direct"]
          /\ GoTo(AfterEpoch(e, latest_footprint_coverage, db_conn))
    /\ UNCHANGED <<selVars, epVars, ruleVars, idxVars, cacheVars, cfgVars, features, outVars, args, baseline_footprint_coverage, latest_footprint_coverage,
                   covering_scenes, zones, swallowed>>

\* lines 625-646: the first band is clipped with (path, geometry), the
\* nine others with (path, geometry, target_shape, transform)
Align ==
    /\ pc = "align"
    /\ work' = work \cup {"clip"}
    /\ LET target == NativeGrid("B04", path["baseline"])
           first == [NoGrids EXCEPT ![FirstSlot] = target]
       IN  \/ \* the first clip raises (no overlap, unreadable raster)
              /\ FailInTry(Exc("ValueError"))
              /\ grids' = grids
           \/ \* the first band is clipped and a later clip raises on its raster
              /\ ClipWithGrid(clip_api) = "ok"
              /\ FailInTry(Exc("ValueError"))
              /\ grids' = first
           \/ IF ClipWithGrid(clip_api) # "ok"
              THEN /\ FailInTry(Exc(ClipWithGrid(clip_api)))
                   /\ grids' = first
              ELSE /\ GoTo("indices")
                   /\ grids' = [s \in Slots |-> target]
    /\ UNCHANGED <<selVars, epVars, ruleVars, idxVars, cacheVars, cfgVars, features, args, artifacts,
                   baseline_footprint_coverage, latest_footprint_coverage,
                   covering_scenes, path, zones, swallowed>>

\* lines 648-696: the six indices, and with a run_id their files
ComputeIndices ==
    /\ pc = "indices"
    /\ work' = work \cup {"index"}
    /\ \/ FailInTry(Exc("ValueError")) /\ artifacts' = artifacts
       \/ \E save_indices \in BOOLEAN :
             /\ artifacts' = IF save_indices /\ Truthy(run_id)
                             THEN artifacts \cup IndexFiles(run_id)
                             ELSE artifacts
             /\ GoTo("detect")
    /\ UNCHANGED <<selVars, epVars, ruleVars, idxVars, cacheVars, cfgVars, features, args, grids,
                   baseline_footprint_coverage, latest_footprint_coverage,
                   covering_scenes, path, zones, swallowed>>

\* geometry dicts: a polygon spanning lo..hi, and {}
Polygon(lo, hi) == [type |-> "Polygon", lo |-> lo, hi |-> hi]
EmptyGeometry == [type |-> "None", lo |-> 0, hi |-> 0]

Zone(zone_type, area_ha, geometry) ==
    [zone_type |-> zone_type, area_ha |-> area_ha, geometry |-> geometry]

ZoneTypes == {"vegetation_loss", "mining_expansion", "water_accumulation"}
\* the masks in the order in which run_analysis vectorizes them
MaskOrder == <<"vegetation_loss", "mining_expansion", "water_accumulation">>

\* a feature of vectorize_mask: the mask it is taken from, its area in
\* hundredths of a hectare, and whether _calculate_area can measure it
Feature(mask, area, measurable, geometry) ==
    [mask |-> mask, area |-> area, measurable |-> measurable,
     geometry |-> geometry]

\* _calculate_area (lines 776-793): 0.0 for a geometry it cannot measure
CalculateArea(feat) == IF feat.measurable THEN feat.area ELSE 0

\* the literals of lines 709, 721 and 733: 0.1, 0.1 and 0.05 ha
MinZoneArea(mask) == IF mask = "water_accumulation" THEN 5 ELSE 10

\* "if area > 0.1" (lines 709, 721), "if area > 0.05" (line 733)
KeepsFeature(mask, area) == area > MinZoneArea(mask)

\* the zones appended by one "for feat in ..." loop
RECURSIVE ZonesOfMask(_, _)
ZonesOfMask(feats, mask) ==
    IF feats = <<>> THEN <<>>
    ELSE LET feat == Head(feats)
             area == CalculateArea(feat)
         IN (IF feat.mask = mask /\ KeepsFeature(mask, area)
             THEN <<Zone(mask, area, feat.geometry)>> ELSE <<>>)
            \o ZonesOfMask(Tail(feats), mask)

\* lines 698-736: the zones of the three masks, one mask after the other
DetectZones(feats) ==
    ZonesOfMask(feats, MaskOrder[1]) \o ZonesOfMask(feats, MaskOrder[2])
    \o ZonesOfMask(feats, MaskOrder[3])

\* most features the three masks vectorize to
MaxFeatures == 2
\* features at, around and below the minimum areas, and one that
\* _calculate_area cannot measure
FeaturePool ==
    { Feature("vegetation_loss", 10, TRUE, Polygon(0, 1)),
      Feature("vegetation_loss", 11, TRUE, Polygon(1, 2)),
      Feature("mining_expansion", 9, TRUE, Polygon(2, 3)),
      Feature("water_accumulation", 5, TRUE, Polygon(3, 4)),
      Feature("vegetation_loss", 40, FALSE, Polygon(4, 5)) }
FeatureLists == UNION { [1 .. n -> FeaturePool] : n \in 0 .. MaxFeatures }

\* lines 698-736: zones of the three masks; _calculate_area (lines 776-793)
\* answers 0.0 for a feature it cannot measure, and the feature is dropped
DetectChange ==
    /\ pc = "detect"
    /\ work' = work \cup {"detect"}
    /\ \/ \* vectorize_mask raises
          /\ FailInTry(Exc("ValueError"))
          /\ UNCHANGED <<features, zones, swallowed>>
       \/ \E feats \in FeatureLists :
             /\ features' = feats
             /\ zones' = DetectZones(feats)
             /\ swallowed' = IF \E i \in 1 .. Len(feats) : ~feats[i].measurable
                             THEN swallowed \cup {"area"} ELSE swallowed
             /\ GoTo("alerts")
    /\ UNCHANGED <<selVars, epVars, ruleVars, idxVars, cacheVars, cfgVars, outVars, args, baseline_footprint_coverage,
                   latest_footprint_coverage, covering_scenes, path>>

\* lines 738-757: AlertRuleEngine().evaluate_zones; a rule that raises
\* inside its own try (BoundaryBreachRule.evaluate) yields no alert
EvaluateAlerts ==
    /\ pc = "alerts"
    /\ work' = work \cup {"alerts"}
    /\ \/ \* the import or the engine raises
          /\ FailInTry(Exc("ImportError"))
          /\ UNCHANGED swallowed
       \/ \E rule_failed \in BOOLEAN :
             /\ swallowed' = IF rule_failed /\ zones # <<>>
                             THEN swallowed \cup {"rule"} ELSE swallowed
             /\ GoTo("done")
    /\ UNCHANGED <<selVars, epVars, ruleVars, idxVars, cacheVars, cfgVars, features, outVars, args, baseline_footprint_coverage,
                   latest_footprint_coverage, covering_scenes, path, zones>>

(***************************************************************************)
(* Temporal epoch grouper (utils/temporal_grouping.py).                    *)
(***************************************************************************)
\* current_epoch_time = None
NoTime == -1
\* no CoverageSet
NoSet == [epoch_time |-> NoTime, scene_ids |-> <<>>, coverage_percent |-> 0]

\* a scene as the grouper reads it: id follows from the position in the
\* input; acquired_at is a text, of a format _parse_iso_datetime reads
\* ("iso", zero-padded; "unpadded", a month of 2 to 9 written with one
\* digit, which strptime's %m reads as well) or not ("bad")
EpScene(minute, cloud, has_uri, fp, fmt) ==
    [acquired_at |-> [fmt |-> fmt, day |-> 0, minute |-> minute],
     cloud |-> cloud, has_uri |-> has_uri, fp |-> fp]
WithId(r, i) ==
    [id |-> i, acquired_at |-> r.acquired_at, cloud |-> r.cloud,
     has_uri |-> r.has_uri, fp |-> r.fp]

\* _parse_iso_datetime, in minutes; ValueError for a text of no format
Parseable(a) == a.fmt \in {"iso", "unpadded"}
ParseIsoDatetime(a) == a.day * 1440 + a.minute
\* the place of an acquired_at text in ORDER BY acquired_at, a comparison
\* of TEXT: "2024-9-..." is above every zero-padded text of its year, and
\* texts written alike are in the order of their times
TextOrder(a) ==
    (IF a.fmt = "unpadded" THEN 366 * 1440 ELSE 0) + a.day * 1440 + a.minute

\* cc is not None and cc > max_cloud_cover
TooCloudy(r) == r.cloud # NoCloud /\ r.cloud > MAX_CLOUD_COVER

RECURSIVE InsertNewest(_, _)
InsertNewest(r, sorted) ==
    IF sorted = <<>> THEN <<r>>
    ELSE IF TextOrder(r.acquired_at) > TextOrder(Head(sorted).acquired_at)
    THEN <<r>> \o sorted
    ELSE <<Head(sorted)>> \o InsertNewest(r, Tail(sorted))

\* ORDER BY acquired_at DESC: texts of equal place keep their order
RECURSIVE SortNewestFirst(_)
SortNewestFirst(rows) ==
    IF rows = <<>> THEN <<>>
    ELSE InsertNewest(rows[Len(rows)],
                      SortNewestFirst(SubSeq(rows, 1, Len(rows) - 1)))

RECURSIVE InsertByTime(_, _)
InsertByTime(r, sorted) ==
    IF sorted = <<>> THEN <<r>>
    ELSE IF ParseIsoDatetime(r.acquired_at) > ParseIsoDatetime(Head(sorted).acquired_at)
    THEN <<r>> \o sorted
    ELSE <<Head(sorted)>> \o InsertByTime(r, Tail(sorted))

\* recs.sort(key=_parse_iso_datetime(acquired_at), reverse=True): stable
RECURSIVE SortByTime(_)
SortByTime(recs) ==
    IF recs = <<>> THEN <<>>
    ELSE InsertByTime(recs[Len(recs)], SortByTime(SubSeq(recs, 1, Len(recs) - 1)))

RECURSIVE TagIds(_, _)
TagIds(input, i) ==
    IF i > Len(input) THEN <<>>
    ELSE <<WithId(input[i], i)>> \o TagIds(input, i + 1)

HasFootprint(r) == r.fp.kind # "null"
\* build_coverage_sets lines 42-49: the SELECT
EpochRows(input) == SortNewestFirst(SelectSeq(TagIds(input, 1), HasFootprint))

\* build_coverage_sets_from_candidates lines 165-190: a candidate without
\* footprint gets the one get_scene_footprint fetches (fetched), or none
RECURSIVE NormalizeCandidates(_, _)
NormalizeCandidates(cands, fetched) ==
    IF cands = <<>> THEN <<>>
    ELSE LET c == Head(cands)
             fp == IF c.fp.kind = "null" THEN fetched ELSE c.fp
         IN (IF TooCloudy(c) \/ ~c.has_uri \/ fp.kind = "null" THEN <<>>
             ELSE <<[c EXCEPT !.fp = fp]>>)
            \o NormalizeCandidates(Tail(cands), fetched)

\* diff_min <= tolerance_min
Joins(anchor, dt, tolerance_min) == Abs(anchor - dt) <= tolerance_min

\* variant: the anchor follows the last scene of the epoch
NextAnchor_Moving(anchor, dt, joins) == dt

\* current_epoch_time after a scene: set only where an epoch starts
NextAnchor(anchor, dt, joins) == IF joins THEN anchor ELSE dt

\* json.loads of the footprint succeeds
Loads(r) == r.fp.kind = "geom"
RECURSIVE UnionCells(_)
UnionCells(recs) ==
    IF recs = <<>> THEN {} ELSE Head(recs).fp.cells \cup UnionCells(Tail(recs))
RECURSIVE SceneIds(_)
SceneIds(recs) ==
    IF recs = <<>> THEN <<>> ELSE <<Head(recs).id>> \o SceneIds(Tail(recs))

\* lines 91-131 (219-254): the CoverageSets of the epochs that reach
\* min_epoch_cov
RECURSIVE CoverageSetsOf(_, _)
CoverageSetsOf(eps, min_epoch_cov) ==
    IF eps = <<>> THEN <<>>
    ELSE LET ep == Head(eps)
             usable == SelectSeq(ep, Loads)
             coverage == CoveragePercent(Boundary \cap UnionCells(usable))
         IN (IF usable = <<>> \/ Boundary \cap UnionCells(usable) = {}
                \/ ~AtLeast(coverage, min_epoch_cov)
             THEN <<>>
             ELSE <<[epoch_time |-> ParseIsoDatetime(ep[1].acquired_at),
                     scene_ids |-> SceneIds(usable),
                     coverage_percent |-> coverage]>>)
            \o CoverageSetsOf(Tail(eps), min_epoch_cov)

\* select_latest_two_sets lines 140-144: the exception raised, or the pair
\* returned
SelectLatestTwo(sets) ==
    IF Len(sets) < 2
    THEN [raised |-> "ValueError", latest |-> NoSet, baseline |-> NoSet]
    ELSE [raised |-> "none", latest |-> sets[1], baseline |-> sets[2]]

(***************************************************************************)
(* Alert rule engine (backend/alert_rules.py).                             *)
(*                                                                         *)
(* Areas are counted in hundredths of a hectare (0.2 ha is 20).  A Python  *)
(* dict is a record with a field "has" holding the keys that are present;  *)
(* the other fields hold the values, and the value of a key that is not    *)
(* present is never read.  Coordinates are counted in 1/111 degree, the    *)
(* length the rule takes for one kilometre.  Titles and descriptions are   *)
(* not modelled.                                                           *)
(***************************************************************************)
\* dict.get(key, default)
Get(d, key, default) == IF key \in d.has THEN d[key] ELSE default

\* a "thresholds" dict
Thresholds(has, high, medium, low) ==
    [has |-> has, high |-> high, medium |-> medium, low |-> low]
NoThresholds == Thresholds({}, 0, 0, 0)

\* one rule's configuration dict
RuleConfig(has, enabled, min_area_ha, thresholds, severity) ==
    [has |-> has, enabled |-> enabled, min_area_ha |-> min_area_ha,
     thresholds |-> thresholds, severity |-> severity]
EmptyConfig == RuleConfig({}, TRUE, 0, NoThresholds, "high")

Alert(alert_type, location, severity, geometry) ==
    [alert_type |-> alert_type, location |-> location, severity |-> severity,
     geometry |-> geometry]
\* the None that evaluate returns
NoAlert == Alert(None, None, None, EmptyGeometry)

\* the "mine_area" dict of the context, and the context
MineAreaDict(has, boundary, buffer_km) ==
    [has |-> has, boundary |-> boundary, buffer_km |-> buffer_km]
Context(has, area) == [has |-> has, mine_area |-> area]

\* AlertRule.__init__
Enabled_RequireKey(config) == "enabled" \in config.has /\ config.enabled
Enabled(config) == Get(config, "enabled", TRUE)

\* AlertRule._get_severity
GetSeverity_LowFirst(config, area_ha) ==
    LET thresholds == Get(config, "thresholds", NoThresholds)
    IN  IF "low" \in thresholds.has /\ area_ha >= thresholds.low THEN "low"
        ELSE IF "medium" \in thresholds.has /\ area_ha >= thresholds.medium
             THEN "medium"
        ELSE IF "high" \in thresholds.has /\ area_ha >= thresholds.high
             THEN "high"
        ELSE None
GetSeverity(config, area_ha) ==
    LET thresholds == Get(config, "thresholds", NoThresholds)
    IN  IF "high" \in thresholds.has /\ area_ha >= thresholds.high THEN "high"
        ELSE IF "medium" \in thresholds.has /\ area_ha >= thresholds.medium
             THEN "medium"
        ELSE IF "low" \in thresholds.has /\ area_ha >= thresholds.low
             THEN "low"
        ELSE None

\* the test "zone.area_ha < min_area" of the three zone-type rules
TooSmall_Never(area_ha, min_area) == FALSE
TooSmall(area_ha, min_area) == area_ha < min_area

VegetationLossRule(config, zone, context) ==
    IF ~Enabled(config) \/ zone.zone_type # "vegetation_loss" THEN NoAlert
    ELSE IF TooSmall(zone.area_ha, Get(config, "min_area_ha", 20)) THEN NoAlert
    ELSE LET severity == GetSeverity(config, zone.area_ha)
         IN  IF severity = None THEN NoAlert
             ELSE Alert("vegetation_loss", "Site Assessment Zone", severity,
                        zone.geometry)

MiningExpansionRule(config, zone, context) ==
    IF ~Enabled(config) \/ zone.zone_type # "mining_expansion" THEN NoAlert
    ELSE IF TooSmall(zone.area_ha, Get(config, "min_area_ha", 5)) THEN NoAlert
    ELSE LET severity == GetSeverity(config, zone.area_ha)
         IN  IF severity = None THEN NoAlert
             ELSE Alert("excavation_alert", "Active Operations Zone", severity,
                        zone.geometry)

WaterAccumulationRule(config, zone, context) ==
    IF ~Enabled(config) \/ zone.zone_type # "water_accumulation" THEN NoAlert
    ELSE IF TooSmall(zone.area_ha, Get(config, "min_area_ha", 5)) THEN NoAlert
    ELSE LET severity == GetSeverity(config, zone.area_ha)
         IN  Alert("water_warning", "Drainage Area",
                   IF severity = None THEN "low" ELSE severity, zone.geometry)

\* shape() of a geometry dict raises on {}
ShapeRaises(geometry) == geometry.type # "Polygon"
\* boundary.buffer(buffer_km / 111.0)
Buffer(boundary, buffer_km) ==
    Polygon(boundary.lo - buffer_km, boundary.hi + buffer_km)
\* zone_geom.within(buffered_boundary)
Within(zone_geom, buffered) ==
    zone_geom.lo >= buffered.lo /\ zone_geom.hi <= buffered.hi

BoundaryBreachRule(config, zone, context) ==
    IF ~Enabled(config) THEN NoAlert
    ELSE IF "mine_area" \notin context.has \/ context.mine_area.has = {}
         THEN NoAlert
    ELSE IF "boundary" \notin context.mine_area.has THEN NoAlert
    ELSE LET boundary_geom == context.mine_area.boundary
             buffer_km == Get(context.mine_area, "buffer_km", 2)
         IN  IF ShapeRaises(boundary_geom) \/ ShapeRaises(zone.geometry)
             THEN NoAlert
             ELSE IF ~Within(zone.geometry, Buffer(boundary_geom, buffer_km))
                  THEN Alert("boundary_breach", "Boundary Perimeter",
                             Get(config, "severity", "high"), zone.geometry)
                  ELSE NoAlert

\* a loaded rule: its class and the config it was constructed with
Rule(kind, config) == [kind |-> kind, config |-> config]

\* rule.evaluate(zone, context)
Evaluate(rule, zone, context) ==
    CASE rule.kind = "vegetation_loss" ->
             VegetationLossRule(rule.config, zone, context)
      [] rule.kind = "mining_expansion" ->
             MiningExpansionRule(rule.config, zone, context)
      [] rule.kind = "water_accumulation" ->
             WaterAccumulationRule(rule.config, zone, context)
      [] OTHER -> BoundaryBreachRule(rule.config, zone, context)

\* the file at config_path: absent, or the JSON text of a config dict
RulesDict(has, veg, mining, water, breach) ==
    [has |-> has, vegetation_loss |-> veg, mining_expansion |-> mining,
     water_accumulation |-> water, boundary_breach |-> breach]
NoRules == RulesDict({}, EmptyConfig, EmptyConfig, EmptyConfig, EmptyConfig)
ConfigDict(has, rules) == [has |-> has, rules |-> rules]
EmptyDict == ConfigDict({}, NoRules)
FileAbsent == [exists |-> FALSE, text |-> EmptyDict]
\* json.dump into the file opened for writing, and json.load of it
JsonDump(config) == [exists |-> TRUE, text |-> config]
JsonLoad(file) == file.text

\* AlertRuleEngine._load_default_rules
DefaultRules ==
    << Rule("vegetation_loss",
            RuleConfig({"enabled", "thresholds", "min_area_ha"}, TRUE, 20,
                       Thresholds({"high", "medium", "low"}, 100, 50, 20),
                       "high")),
       Rule("mining_expansion",
            RuleConfig({"enabled", "thresholds", "min_area_ha"}, TRUE, 5,
                       Thresholds({"medium", "low"}, 0, 10, 5), "high")),
       Rule("water_accumulation",
            RuleConfig({"enabled", "thresholds", "min_area_ha"}, TRUE, 5,
                       Thresholds({"low"}, 0, 0, 5), "high")) >>

\* the order in which load_rules looks for the rules' entries
RuleOrder ==
    <<"vegetation_loss", "mining_expansion", "water_accumulation",
      "boundary_breach">>

RuleOrderSet == { RuleOrder[k] : k \in 1..Len(RuleOrder) }

RECURSIVE AppendRules(_, _)
AppendRules(rules_config, k) ==
    IF k > Len(RuleOrder) THEN <<>>
    ELSE (IF RuleOrder[k] \in rules_config.has
          THEN <<Rule(RuleOrder[k], rules_config[RuleOrder[k]])>>
          ELSE <<>>) \o AppendRules(rules_config, k + 1)

\* AlertRuleEngine.load_rules
LoadRules_Keep(file, rules) == rules
LoadRules(file, rules) ==
    IF ~file.exists THEN DefaultRules
    ELSE AppendRules(Get(JsonLoad(file), "rules", NoRules), 1)

\* AlertRuleEngine.get_config
GetConfig(file) == IF file.exists THEN JsonLoad(file) ELSE EmptyDict

\* the pair the loops of evaluate_zones visit after (i, j)
NextPair(i, j, nrules) ==
    IF j < nrules THEN <<i, j + 1>> ELSE <<i + 1, 1>>

\* "if alert: alerts.append(alert)"
Collect_All(alerts, alert) == Append(alerts, alert)
Collect(alerts, alert) ==
    IF alert # NoAlert THEN Append(alerts, alert) ELSE alerts

\* rules, zones and context while another operation runs
RuleIdle ==
    /\ rl_file = FileAbsent /\ rl_rules = <<>> /\ rl_zones = <<>>
    /\ rl_context = Context({}, MineAreaDict({}, EmptyGeometry, 0))
    /\ rl_new_config = EmptyDict /\ rl_read = EmptyDict /\ rl_updates = 0
    /\ rl_i = 0 /\ rl_j = 0 /\ rl_alerts = <<>> /\ rl_results = <<>>
    /\ rl_pc = "idle"

(***************************************************************************)
(* Spectral indices (backend/utils/spatial.py), one pixel at a time.       *)
(* Band values are non-negative integers, which astype(float) holds        *)
(* exactly; a float is a fraction num/den with den > 0, or one of the      *)
(* three non-finite values a division by zero produces.                    *)
(***************************************************************************)
Finite(num, den) == [kind |-> "finite", num |-> num, den |-> den]
NaN == [kind |-> "nan", num |-> 0, den |-> 1]
PosInf == [kind |-> "posinf", num |-> 0, den |-> 1]
NegInf == [kind |-> "neginf", num |-> 0, den |-> 1]

\* float division under np.errstate(divide='ignore', invalid='ignore')
Divide(numerator, denominator) ==
    IF denominator > 0 THEN Finite(numerator, denominator)
    ELSE IF denominator < 0 THEN Finite(-numerator, -denominator)
    ELSE IF numerator = 0 THEN NaN
    ELSE IF numerator > 0 THEN PosInf
    ELSE NegInf

\* np.nan_to_num(x, nan=0.0, posinf=0.0, neginf=0.0)
NanToNum_Keep(x) == x
NanToNum(x) == IF x.kind = "finite" THEN x ELSE Finite(0, 1)

calculate_ndvi(red, nir) == NanToNum(Divide(nir - red, nir + red))
calculate_ndwi(green, nir) == NanToNum(Divide(green - nir, green + nir))
calculate_bsi(red, blue, nir, swir) ==
    NanToNum(Divide((swir + red) - (nir + blue), (swir + red) + (nir + blue)))

BandNames == {"red", "green", "blue", "nir", "swir"}
IdxIdle ==
    /\ idx_fn = "idle" /\ idx_bands = [b \in BandNames |-> 0]
    /\ idx_out = Finite(0, 1) /\ idx_pc = "idle"

(***************************************************************************)
(* Shared download cache: download_sentinel2_bands                         *)
(* (utils/stac_downloader.py).  Every run that asks for a band of a scene  *)
(* uses the one file DATA_DIR/<item>_<band>.tif; the body of a band        *)
(* arrives in chunks.                                                      *)
(***************************************************************************)
\* runs that ask for the same band of the same scene
MaxRuns == 2
\* chunks of r.iter_content the body of the band arrives in
MaxChunks == 3
Runs == 1 .. MaxRuns
Chunks == 1 .. MaxChunks

\* local_path: whether it exists, and which chunks of the band it holds
BandFile(exists, chunks) == [exists |-> exists, chunks |-> chunks]
NoBandFile == BandFile(FALSE, {})
WholeBandFile == BandFile(TRUE, Chunks)

\* open(local_path, 'wb'): the file is created, or truncated
OpenWb(file) == BandFile(TRUE, {})
\* f.write(chunk), by a writer whose position is pos
WriteChunk(file, pos) == BandFile(TRUE, file.chunks \cup {pos})
\* what a run that opens the band file finds in it
ReadBand(file) == IF file.chunks = Chunks THEN "complete" ELSE "partial"

CacheIdle ==
    /\ dl_file = NoBandFile /\ dl_pc = [r \in Runs |-> "idle"]
    /\ dl_pos = [r \in Runs |-> 0] /\ dl_read = [r \in Runs |-> "none"]

(***************************************************************************)
(* The rule configuration file while update_config rewrites it             *)
(* (alert_rules.py lines 336-340) and another request reads it.            *)
(***************************************************************************)
\* what a reader takes from the file: the exception of json.load, the
\* rules of load_rules, the dict of get_config
Seen(raised, rules, config) ==
    [raised |-> raised, rules |-> rules, config |-> config]
NothingSeen == Seen("none", <<>>, EmptyDict)

\* json.load reads a document only from a file written in full: of the
\* file that open(path, 'w') has emptied, or of a prefix of the dump, it
\* raises JSONDecodeError
Decodes(flushed) == flushed = "complete"

\* AlertRuleEngine(): load_rules at the moment the file is in this state
ConstructOver(file, flushed) ==
    IF file.exists /\ ~Decodes(flushed)
    THEN Seen("JSONDecodeError", <<>>, EmptyDict)
    ELSE Seen("none", LoadRules(file, <<>>), EmptyDict)

\* engine.get_config() at the moment the file is in this state
GetConfigOver(file, flushed) ==
    IF file.exists /\ ~Decodes(flushed)
    THEN Seen("JSONDecodeError", <<>>, EmptyDict)
    ELSE Seen("none", <<>>, GetConfig(file))

CfgIdle ==
    /\ cf_file = FileAbsent /\ cf_flushed = "complete" /\ cf_old = FileAbsent
    /\ cf_new = EmptyDict /\ cf_upd_pc = "idle" /\ cf_upd_rules = <<>>
    /\ cf_reader = "idle" /\ cf_reader_pc = "idle" /\ cf_seen = NothingSeen

\* selector and grouper variables while run_analysis runs
SelIdle ==
    /\ sel_fn = "idle" /\ sel_table = <<>> /\ sel_target = 0
    /\ sel_params = RunParams("mapping") /\ sel_rows = <<>> /\ sel_i = 0
    /\ sel_state = SelStart /\ sel_pc = "idle"
EpIdle ==
    /\ ep_fn = "idle" /\ ep_input = <<>> /\ ep_tol = 0 /\ ep_min_cov = 0
    /\ ep_recs = <<>> /\ ep_i = 0 /\ epochs = <<>> /\ current_epoch = <<>>
    /\ current_epoch_time = NoTime /\ coverage_sets = <<>>
    /\ latest_set = NoSet /\ baseline_set = NoSet /\ ep_error = "none"
    /\ ep_pc = "idle"
PipeIdle ==
    /\ db_conn = None /\ mine_area = None /\ baseline_scene = NoScene
    /\ latest_scene = NoScene /\ run_id = None /\ catalog = <<>>
    /\ clip_api = ClipTwoArg /\ pc = "idle"
    /\ baseline_footprint_coverage = 0 /\ latest_footprint_coverage = 0
    /\ covering_scenes = <<>> /\ path = [e \in Epochs |-> "none"]
    /\ features = <<>> /\ zones = <<>> /\ error = NoError /\ work = {}
    /\ swallowed = {}
    /\ stages = <<>> /\ grids = NoGrids /\ artifacts = {}

\* a call of run_analysis with any arguments, against any catalog
Init ==
    /\ db_conn \in DbConns
    /\ mine_area \in MineAreas
    /\ baseline_scene \in SceneArgs
    /\ latest_scene \in SceneArgs
    /\ run_id \in RunIds
    /\ catalog \in Catalogs
    /\ clip_api \in ClipApis
    /\ pc = "validate"
    /\ baseline_footprint_coverage = 0
    /\ latest_footprint_coverage = 0
    /\ covering_scenes = <<>>
    /\ path = [e \in Epochs |-> "none"]
    /\ features = <<>>
    /\ zones = <<>>
    /\ error = NoError
    /\ work = {}
    /\ swallowed = {}
    /\ stages = <<"Validating">>
    /\ grids = NoGrids
    /\ artifacts = {}
    /\ SelIdle
    /\ EpIdle
    /\ RuleIdle
    /\ IdxIdle
    /\ CacheIdle
    /\ CfgIdle

Next ==
    \/ Validate
    \/ Initialize
    \/ CheckFootprints
    \/ Search("baseline")
    \/ Mosaic("baseline")
    \/ Download("baseline")
    \/ Search("latest")
    \/ Mosaic("latest")
    \/ Download("latest")
    \/ Align
    \/ ComputeIndices
    \/ DetectChange
    \/ EvaluateAlerts

Spec == Init /\ [][Next]_vars

(***************************************************************************)
(* Properties of run_analysis (specification Spec).                        *)
(***************************************************************************)
Ended == pc \in {"done", "failed"}
BothScenesGiven == baseline_scene.given /\ latest_scene.given
SameUri == baseline_scene.uri = latest_scene.uri

\* C1, as amended: a run raises IdenticalScenesError exactly when a
\* db_conn, both scenes and a mine_area are supplied and the two scenes
\* have the same uri; the scenes' id, source, acquired_at and cloud_cover
\* and the run_id play no part.
C1_IdenticalScenesIff ==
    Ended =>
        (error.type = "IdenticalScenesError"
            <=> /\ db_conn # None
                /\ BothScenesGiven
                /\ mine_area # None
                /\ SameUri)

\* C1, witness: IdenticalScenesError raised for two scenes that differ in
\* every field but the uri
C1_Witness ==
    /\ pc = "failed"
    /\ error.type = "IdenticalScenesError"
    /\ baseline_scene.id # latest_scene.id
    /\ baseline_scene.source # latest_scene.source
    /\ baseline_scene.acquired_at # latest_scene.acquired_at
    /\ baseline_scene.cloud_cover # latest_scene.cloud_cover

\* C1, as claimed: IdenticalScenesError exactly when the uris are equal,
\* whatever db_conn and mine_area are
C1_AsClaimed ==
    (Ended /\ BothScenesGiven) => (error.type = "IdenticalScenesError" <=> SameUri)

\* C2, as amended: when both scenes are given and their uris are equal the
\* run fails in the early validation with no work done (no footprint
\* lookup, scene search, download, mosaic, clip or index computation); the
\* error is DatabaseConnectionError without a db_conn, AnalysisError of
\* stage "validation" without a mine_area, IdenticalScenesError otherwise.
C2_IdenticalFailsBeforeWork ==
    (BothScenesGiven /\ SameUri) =>
        /\ pc \in {"validate", "failed"}
        /\ work = {}
        /\ pc = "failed" =>
              /\ stages = <<"Validating", "Failed">>
              /\ error = IF db_conn = None THEN Exc("DatabaseConnectionError")
                         ELSE IF mine_area = None
                         THEN AnalysisErr("validation", run_id)
                         ELSE Exc("IdenticalScenesError")

\* C2, witness: a run with a connection, a boundary and a catalog that
\* holds the scene has failed with IdenticalScenesError and done no work
C2_Witness ==
    /\ pc = "failed"
    /\ error.type = "IdenticalScenesError"
    /\ work = {}
    /\ db_conn = "sqlite3.Row"
    /\ mine_area = "with_boundary"
    /\ baseline_scene.uri = "S1"

\* C2, as claimed: equal uris always end the run with IdenticalScenesError
C2_AsClaimed ==
    (Ended /\ BothScenesGiven /\ SameUri) =>
        (error.type = "IdenticalScenesError" /\ work = {})

\* C3, as claimed: a step in which a footprint lookup, a candidate
\* evaluation, a mosaic clip, an area computation or a rule evaluation
\* fails and is answered by a substitute ends the run in failure
C3_AsClaimed ==
    [][swallowed' # swallowed => pc' = "failed"]_vars

\* the classes of exceptions.py that leave run_analysis
CodeTaxonomy ==
    {"InsufficientCoverageError", "MosaicError", "IdenticalScenesError",
     "TemporalInconsistencyError", "DatabaseConnectionError", "AnalysisError"}
\* the taxonomy of the claim
ClaimedTaxonomy ==
    {"ValidationError", "InsufficientCoverageError", "MosaicError",
     "IdenticalScenesError", "TemporalInconsistencyError",
     "CatalogUnavailableError", "AnalysisError"}

\* C4, as amended: every failure of run_analysis reaches the caller as
\* one of InsufficientCoverageError, MosaicError, IdenticalScenesError,
\* TemporalInconsistencyError, DatabaseConnectionError or AnalysisError, and
\* an exception of any other class raised inside the try block arrives as
\* AnalysisError of stage "unknown".
C4_ClosedTaxonomy ==
    pc = "failed" =>
        /\ error.type \in CodeTaxonomy
        /\ (error.type = "AnalysisError" /\ error.stage # "validation")
              => (error.stage = "unknown" /\ error.run_id = run_id)

\* C4, witness: the TypeError of the clip call has reached the caller as
\* AnalysisError
C4_Witness ==
    /\ pc = "failed"
    /\ error.type = "AnalysisError"
    /\ error.stage = "unknown"
    /\ error.run_id = run_id
    /\ "clip" \in work
    /\ clip_api = ClipTwoArg

\* C4, as claimed: every failure is of the taxonomy of the claim
C4_AsClaimed == pc = "failed" => error.type \in ClaimedTaxonomy

IsPrefix(s, t) == Len(s) <= Len(t) /\ SubSeq(t, 1, Len(s)) = s
\* the stages entered, without a final Failed
RunStages ==
    IF stages # <<>> /\ stages[Len(stages)] = "Failed"
    THEN SubSeq(stages, 1, Len(stages) - 1) ELSE stages
StageOrder(fetch) ==
    <<"Validating", "ResolvingCoverage">> \o fetch
    \o <<"Aligning", "ComputingIndices", "DetectingChange", "EvaluatingAlerts",
         "Done">>
\* the fetch of the two epochs, baseline then latest, each by mosaic or by
\* direct download, the latest after a scene search of its own when its
\* scene is below the mosaic threshold
EpochFetches ==
    { <<"DirectDownload">>,
      <<"DirectDownload", "ResolvingCoverage", "Mosaicking">>,
      <<"Mosaicking", "DirectDownload">>,
      <<"Mosaicking", "ResolvingCoverage", "Mosaicking">> }
ClaimedFetches == { <<"DirectDownload">>, <<"Mosaicking">> }

\* C5, as amended: a run passes through Validating, ResolvingCoverage, the
\* fetch of the baseline epoch (Mosaicking or DirectDownload), the fetch of
\* the latest epoch (preceded by ResolvingCoverage again when the latest
\* scene is below the mosaic threshold), Aligning, ComputingIndices,
\* DetectingChange, EvaluatingAlerts, Done, skipping none of them and
\* repeating no step; Failed can follow any stage; Done and Failed are
\* terminal.
C5_StageOrder ==
    /\ [](\E fetch \in EpochFetches : IsPrefix(RunStages, StageOrder(fetch)))
    /\ [][~Ended]_vars

\* C5, witness: a run has reached Done with both epochs mosaicked
C5_Witness ==
    /\ pc = "done"
    /\ stages = StageOrder(<<"Mosaicking", "ResolvingCoverage", "Mosaicking">>)

\* C5, as claimed: one ResolvingCoverage stage, then one of Mosaicking and
\* DirectDownload for the run, no stage entered twice
C5_AsClaimed ==
    \E fetch \in ClaimedFetches : IsPrefix(RunStages, StageOrder(fetch))

\* C6, as amended: the decision is taken for each epoch on its own scene:
\* an epoch whose bands were fetched was direct-downloaded exactly when its
\* scene's footprint coverage is at or above the mosaic threshold and
\* mosaicked otherwise, so a run can direct-download one epoch and mosaic
\* the other.
C6_PerEpochDecision ==
    \A e \in Epochs :
        path[e] # "none" =>
            (path[e] = "direct" <=> AtLeast(CoverageOf(e), MOSAIC_THRESHOLD))

\* C6, witness: on a connection of get_db the baseline epoch has been
\* direct-downloaded from a scene at or above the threshold although the
\* latest scene is below it
C6_Witness ==
    /\ db_conn = "sqlite3.Row"
    /\ path["baseline"] = "direct"
    /\ AtLeast(baseline_footprint_coverage, MOSAIC_THRESHOLD)
    /\ Below(latest_footprint_coverage, MOSAIC_THRESHOLD)
    /\ pc = "failed"
    /\ error.type = "InsufficientCoverageError"

\* C6, as claimed: a direct download only when both scenes are at or above
\* the threshold, and never one epoch direct while the other is mosaicked
C6_AsClaimed ==
    /\ (\E e \in Epochs : path[e] = "direct") =>
          /\ AtLeast(baseline_footprint_coverage, MOSAIC_THRESHOLD)
          /\ AtLeast(latest_footprint_coverage, MOSAIC_THRESHOLD)
    /\ {path["baseline"], path["latest"]} # {"direct", "mosaic"}

(***************************************************************************)
(* The greedy scene selector, step by step (specification SpecSel): a call *)
(* of _find_covering_scenes or of find_optimal_scenes on any table of at   *)
(* most MaxRows rows.                                                      *)
(***************************************************************************)
SelRowPool ==
    { Row(0, 10, Left55), Row(0, NoCloud, Right55), Row(5, 0, West30),
      Row(5, 20, Mid), Row(5, 90, Full), Row(40, 20, Full),
      Row(5, 10, Malformed), Row(5, NoCloud, Outside),
      Row(0, 10, NullFootprint) }
\* rows of the tables that are one row longer than MaxRows, more than a
\* one-scene call fetches
SelLongPool == { Row(0, NoCloud, Outside), Row(5, 20, Mid), Row(5, 20, Full) }
SelTables ==
    UNION { [1 .. n -> SelRowPool] : n \in 1 .. MaxRows }
    \cup [1 .. MaxRows + 1 -> SelLongPool]
SelParams ==
    { [min_coverage_percent |-> RUN_MIN_COVERAGE, max_scenes |-> m,
       max_date_diff_days |-> MAX_DATE_DIFF_DAYS, rows_kind |-> k] :
      m \in {1, RUN_MAX_SCENES}, k \in {"sqlite3.Row", "mapping"} }
SelCalls ==
    { [fn |-> "_find_covering_scenes", params |-> p] : p \in SelParams }
    \cup { [fn |-> "find_optimal_scenes", params |-> RunParams("mapping")] }

InitSel ==
    /\ sel_table \in SelTables
    /\ \E c \in SelCalls : sel_fn = c.fn /\ sel_params = c.params
    /\ sel_target = 0
    /\ sel_rows = <<>>
    /\ sel_i = 0
    /\ sel_state = SelStart
    /\ sel_pc = "query"
    /\ PipeIdle
    /\ EpIdle
    /\ RuleIdle
    /\ IdxIdle
    /\ CacheIdle
    /\ CfgIdle

\* the rows the loop runs over: lines 219-242, coverage_validator.py
\* lines 311-315
SelQuery ==
    /\ sel_pc = "query"
    /\ sel_rows' = IF sel_fn = "_find_covering_scenes"
                   THEN QueryCandidates(sel_table, sel_target, sel_params.max_scenes)
                   ELSE SortByCloud(AllRows(sel_table, sel_target))
    /\ sel_i' = 1
    /\ sel_pc' = "loop"
    /\ UNCHANGED <<sel_fn, sel_table, sel_target, sel_params, sel_state,
                   pipeVars, epVars, ruleVars,
                   idxVars, cacheVars, cfgVars>>

\* one iteration of the loop
SelIterate ==
    /\ sel_pc = "loop"
    /\ sel_i <= Len(sel_rows)
    /\ ~sel_state.stopped
    /\ IF sel_fn = "_find_covering_scenes"
       THEN /\ sel_state' = CoveringStep(sel_state, sel_rows[sel_i], sel_params)
            /\ sel_pc' = sel_pc
       ELSE IF OptimalRaises(sel_rows[sel_i])
       THEN sel_state' = sel_state /\ sel_pc' = "raised"
       ELSE /\ sel_state' = OptimalStep(sel_state, sel_rows[sel_i], sel_params)
            /\ sel_pc' = sel_pc
    /\ sel_i' = sel_i + 1
    /\ UNCHANGED <<sel_fn, sel_table, sel_target, sel_params, sel_rows,
                   pipeVars, epVars, ruleVars,
                   idxVars, cacheVars, cfgVars>>

\* the loop is left by exhaustion or by break: return selected_scenes
SelReturn ==
    /\ sel_pc = "loop"
    /\ sel_i > Len(sel_rows) \/ sel_state.stopped
    /\ sel_pc' = "returned"
    /\ UNCHANGED <<sel_fn, sel_table, sel_target, sel_params, sel_rows, sel_i,
                   sel_state, pipeVars, epVars, ruleVars,
                   idxVars, cacheVars, cfgVars>>

NextSel == SelQuery \/ SelIterate \/ SelReturn

SpecSel == InitSel /\ [][NextSel]_vars

(***************************************************************************)
(* The epoch grouper, step by step (specification SpecEpoch): a call of    *)
(* build_coverage_sets or build_coverage_sets_from_candidates on any list  *)
(* of at most MaxScenes scenes, followed by select_latest_two_sets on the  *)
(* sets it returned.  TEMPORAL_GROUPING is not defined by config.py, so    *)
(* its two entries are inputs of the call.                                 *)
(***************************************************************************)
EpScenePool ==
    { EpScene(0, 10, TRUE, Left55, "iso"),
      EpScene(5, NoCloud, TRUE, Right55, "iso"),
      EpScene(12, 10, TRUE, West30, "iso"),
      EpScene(40, 10, TRUE, Full, "iso"),
      EpScene(8, 90, TRUE, Full, "iso"),
      EpScene(45, 10, FALSE, Full, "iso"),
      EpScene(3, 10, TRUE, Malformed, "iso"),
      EpScene(20, 10, TRUE, NullFootprint, "iso"),
      EpScene(30, 10, TRUE, Full, "bad"),
      EpScene(20, 10, TRUE, Full, "unpadded") }
EpInputs == UNION { [1 .. n -> EpScenePool] : n \in 0 .. MaxScenes }
\* EPOCH_TOLERANCE_MINUTES and MIN_EPOCH_COVERAGE_PERCENT
EpTolerances == {5, 10}
EpMinCoverages == {50, 95}

InitEpoch ==
    /\ ep_fn \in {"build_coverage_sets", "build_coverage_sets_from_candidates"}
    /\ ep_input \in EpInputs
    /\ ep_tol \in EpTolerances
    /\ ep_min_cov \in EpMinCoverages
    /\ ep_recs = <<>>
    /\ ep_i = 0
    /\ epochs = <<>>
    /\ current_epoch = <<>>
    /\ current_epoch_time = NoTime
    /\ coverage_sets = <<>>
    /\ latest_set = NoSet
    /\ baseline_set = NoSet
    /\ ep_error = "none"
    /\ ep_pc = "rows"
    /\ PipeIdle
    /\ SelIdle
    /\ RuleIdle
    /\ IdxIdle
    /\ CacheIdle
    /\ CfgIdle

epInputs == <<ep_fn, ep_input, ep_tol, ep_min_cov>>

\* build_coverage_sets lines 42-52: the rows of the table, newest first
EpQuery ==
    /\ ep_pc = "rows"
    /\ ep_fn = "build_coverage_sets"
    /\ ep_recs' = EpochRows(ep_input)
    /\ ep_i' = 1
    /\ ep_pc' = "loop"
    /\ UNCHANGED <<epInputs, epochs, current_epoch, current_epoch_time,
                   coverage_sets, latest_set, baseline_set, ep_error,
                   pipeVars, selVars, ruleVars,
                   idxVars, cacheVars, cfgVars>>

\* build_coverage_sets_from_candidates lines 165-196: the records kept,
\* sorted newest first; the sort parses every acquired_at
EpNormalize ==
    /\ ep_pc = "rows"
    /\ ep_fn = "build_coverage_sets_from_candidates"
    /\ \E fetched \in {NullFootprint, Full} :
          LET recs == NormalizeCandidates(TagIds(ep_input, 1), fetched)
          IN IF \E i \in 1 .. Len(recs) : ~Parseable(recs[i].acquired_at)
             THEN /\ ep_pc' = "raised"
                  /\ ep_error' = "ValueError"
                  /\ UNCHANGED <<ep_recs, ep_i>>
             ELSE /\ ep_recs' = SortByTime(recs)
                  /\ ep_i' = 1
                  /\ ep_pc' = "loop"
                  /\ ep_error' = ep_error
    /\ UNCHANGED <<epInputs, epochs, current_epoch, current_epoch_time,
                   coverage_sets, latest_set, baseline_set, pipeVars, selVars, ruleVars,
                   idxVars, cacheVars, cfgVars>>

\* one iteration of "for row in rows" (lines 63-86) or "for r in recs"
\* (lines 202-215)
EpIterate ==
    /\ ep_pc = "loop"
    /\ ep_i <= Len(ep_recs)
    /\ ep_i' = ep_i + 1
    /\ LET r == ep_recs[ep_i]
           dt == ParseIsoDatetime(r.acquired_at)
           joins == Joins(current_epoch_time, dt, ep_tol)
       IN IF ep_fn = "build_coverage_sets" /\ (TooCloudy(r) \/ ~r.has_uri)
          THEN UNCHANGED <<epochs, current_epoch, current_epoch_time, ep_error, ep_pc>>
          ELSE IF ~Parseable(r.acquired_at)
          THEN /\ ep_pc' = "raised"
               /\ ep_error' = "ValueError"
               /\ UNCHANGED <<epochs, current_epoch, current_epoch_time>>
          ELSE IF current_epoch_time = NoTime
          THEN /\ current_epoch_time' = dt
               /\ current_epoch' = <<r>>
               /\ UNCHANGED <<epochs, ep_error, ep_pc>>
          ELSE /\ current_epoch_time' = NextAnchor(current_epoch_time, dt, joins)
               /\ current_epoch' = IF joins THEN Append(current_epoch, r) ELSE <<r>>
               /\ epochs' = IF joins \/ current_epoch = <<>> THEN epochs
                            ELSE Append(epochs, current_epoch)
               /\ UNCHANGED <<ep_error, ep_pc>>
    /\ UNCHANGED <<epInputs, ep_recs, coverage_sets, latest_set, baseline_set,
                   pipeVars, selVars, ruleVars,
                   idxVars, cacheVars, cfgVars>>

\* lines 88-131 (216-254): the last epoch is closed and the coverage sets
\* are returned
EpFinish ==
    /\ ep_pc = "loop"
    /\ ep_i > Len(ep_recs)
    /\ epochs' = IF current_epoch # <<>> THEN Append(epochs, current_epoch)
                 ELSE epochs
    /\ coverage_sets' = CoverageSetsOf(epochs', ep_min_cov)
    /\ ep_pc' = "sets"
    /\ UNCHANGED <<epInputs, ep_recs, ep_i, current_epoch, current_epoch_time,
                   latest_set, baseline_set, ep_error, pipeVars, selVars, ruleVars,
                   idxVars, cacheVars, cfgVars>>

\* select_latest_two_sets(coverage_sets), lines 134-144
SelectLatestTwoSets ==
    /\ ep_pc = "sets"
    /\ LET r == SelectLatestTwo(coverage_sets)
       IN /\ ep_pc' = IF r.raised # "none" THEN "select_raised" ELSE "selected"
          /\ ep_error' = r.raised
          /\ latest_set' = r.latest
          /\ baseline_set' = r.baseline
    /\ UNCHANGED <<epInputs, ep_recs, ep_i, epochs, current_epoch,
                   current_epoch_time, coverage_sets, pipeVars, selVars, ruleVars,
                   idxVars, cacheVars, cfgVars>>

NextEpoch == EpQuery \/ EpNormalize \/ EpIterate \/ EpFinish \/ SelectLatestTwoSets

SpecEpoch == InitEpoch /\ [][NextEpoch]_vars

(***************************************************************************)
(* Properties of the epoch grouper (specification SpecEpoch).              *)
(***************************************************************************)
\* C7, as claimed: with fewer than two valid CoverageSets the error raised
\* to the caller is InsufficientCoverageError; with two or more the latest
\* is the first set and the baseline the second
C7_AsClaimed ==
    /\ ep_pc = "select_raised" => ep_error = "InsufficientCoverageError"
    /\ ep_pc = "selected" =>
          (latest_set = coverage_sets[1] /\ baseline_set = coverage_sets[2])

\* C7, the case: select_latest_two_sets has been given one valid set only
C7_Witness ==
    /\ ep_pc = "select_raised"
    /\ Len(coverage_sets) = 1

EpochTimes(ep) == {ParseIsoDatetime(ep[j].acquired_at) : j \in 1 .. Len(ep)}
\* every scene of the epoch is within the tolerance of its first scene
WithinAnchor(ep) ==
    \A j \in 1 .. Len(ep) :
        Abs(ParseIsoDatetime(ep[1].acquired_at)
            - ParseIsoDatetime(ep[j].acquired_at)) <= ep_tol
\* the scene the loop is at is one it groups (not filtered, parseable)
Grouped(r) ==
    /\ ~(ep_fn = "build_coverage_sets" /\ (TooCloudy(r) \/ ~r.has_uri))
    /\ Parseable(r.acquired_at)
\* the scenes of the example: t0, t0 + 5 min, t0 + 40 min, in any order
ExampleInput ==
    /\ Len(ep_input) = 3
    /\ {ep_input[i] : i \in 1 .. 3}
          = { EpScene(0, 10, TRUE, Left55, "iso"),
              EpScene(5, NoCloud, TRUE, Right55, "iso"),
              EpScene(40, 10, TRUE, Full, "iso") }
    /\ ep_tol = 10

\* C10: a scene joins the current epoch exactly when its distance to the
\* timestamp of the epoch's first scene is at most the tolerance, and
\* otherwise starts a new epoch; every scene of an epoch is within the
\* tolerance of the epoch's first scene; scenes at t0, t0+5, t0+40 with
\* tolerance 10 give the two epochs {t0+40} and {t0, t0+5}.
C10_AnchoredEpochs ==
    /\ [](\A k \in 1 .. Len(epochs) : WithinAnchor(epochs[k]))
    /\ [](WithinAnchor(current_epoch))
    /\ []((ExampleInput /\ ep_pc = "sets") =>
            [k \in 1 .. Len(epochs) |-> EpochTimes(epochs[k])] = <<{40}, {0, 5}>>)
    /\ [][(ep_pc = "loop" /\ ep_i' = ep_i + 1 /\ current_epoch # <<>>
           /\ Grouped(ep_recs[ep_i]))
          => LET r == ep_recs[ep_i]
                 anchor == ParseIsoDatetime(current_epoch[1].acquired_at)
             IN IF Abs(anchor - ParseIsoDatetime(r.acquired_at)) <= ep_tol
                THEN current_epoch' = Append(current_epoch, r) /\ epochs' = epochs
                ELSE /\ current_epoch' = <<r>>
                     /\ epochs' = Append(epochs, current_epoch)]_vars

\* C10, witness: the example has been grouped into its two epochs
C10_Witness ==
    /\ ExampleInput
    /\ ep_pc = "sets"
    /\ Len(epochs) = 2
    /\ Len(epochs[2]) = 2

(***************************************************************************)
(* Properties of the greedy scene selector (specification SpecSel).        *)
(***************************************************************************)
\* the coverage of the boundary by the first selected scene alone
FirstSceneCoverage ==
    CoveragePercent(Boundary \cap sel_table[sel_state.selected_scenes[1]].fp.cells)

\* C8: in _find_covering_scenes and in find_optimal_scenes the running
\* coverage_percent never decreases from one iteration to the next, and
\* the coverage at return is at least that of the first selected scene.
C8_CoverageMonotone ==
    /\ [][sel_state'.coverage_percent >= sel_state.coverage_percent]_vars
    /\ []((sel_pc = "returned" /\ sel_state.selected_scenes # <<>>)
            => sel_state.coverage_percent >= FirstSceneCoverage)

\* C8, witness: a call has returned two scenes or more, with more
\* coverage than its first scene gives
C8_Witness ==
    /\ sel_pc = "returned"
    /\ Len(sel_state.selected_scenes) >= 2
    /\ sel_state.coverage_percent > FirstSceneCoverage

\* two in-range scenes of 55% each whose union is the whole boundary, a
\* threshold of 95% and room for two scenes
TwoHalves ==
    /\ sel_fn = "_find_covering_scenes"
    /\ Len(sel_table) = 2
    /\ \A i \in 1 .. 2 :
          /\ sel_table[i].fp.kind = "geom"
          /\ CoveragePercent(Boundary \cap sel_table[i].fp.cells) = 55 * AreaUnits
          /\ Abs(sel_table[i].day - sel_target) <= sel_params.max_date_diff_days
          /\ InWhere(QueryRow(sel_table, i, sel_target))
    /\ Boundary \subseteq sel_table[1].fp.cells \cup sel_table[2].fp.cells
    /\ sel_params.min_coverage_percent = 95
    /\ sel_params.max_scenes >= 2

\* C9, as claimed: on such a catalog the resolver returns both scenes, in
\* the order in which it met them, with coverage of 95% or more
C9_AsClaimed ==
    (TwoHalves /\ sel_pc = "returned") =>
        /\ sel_state.selected_scenes = <<sel_rows[1].id, sel_rows[2].id>>
        /\ AtLeast(sel_state.coverage_percent, 95)

\* C9, the case: the resolver has returned on such a catalog read through
\* a connection whose rows are sqlite3.Row
C9_Witness ==
    /\ TwoHalves
    /\ sel_pc = "returned"
    /\ sel_params.rows_kind = "sqlite3.Row"

\* C9 on rows that have .get: what the loop does once line 262 does not raise
C9_WithMappingRows ==
    (TwoHalves /\ sel_pc = "returned" /\ sel_params.rows_kind = "mapping") =>
        /\ sel_state.selected_scenes = <<sel_rows[1].id, sel_rows[2].id>>
        /\ AtLeast(sel_state.coverage_percent, 95)

(***************************************************************************)
(* The alert rule engine on its own: an engine is constructed over a       *)
(* config file, its configuration is updated and read, and it evaluates a  *)
(* list of zones one (zone, rule) pair at a time.                          *)
(***************************************************************************)
\* longest zone list handed to evaluate_zones
MaxZones == 2
\* calls of update_config on one engine
MaxUpdates == 1

AllThresholds == {"high", "medium", "low"}
AllFields == {"enabled", "thresholds", "min_area_ha"}
\* the configuration of test_vegetation_loss_rule
VegTest == RuleConfig(AllFields, TRUE, 20,
                      Thresholds(AllThresholds, 100, 50, 20), "high")
VegDisabled == RuleConfig(AllFields, FALSE, 20,
                          Thresholds(AllThresholds, 100, 50, 20), "high")
\* an entry with thresholds only, the lowest below the default minimum area
VegNoMin == RuleConfig({"thresholds"}, TRUE, 0,
                       Thresholds(AllThresholds, 100, 50, 5), "high")
\* an entry as PUT /alert-rules accepts it, high below medium
VegUnordered == RuleConfig(AllFields, TRUE, 20,
                           Thresholds(AllThresholds, 50, 100, 20), "high")
MiningTest == RuleConfig(AllFields, TRUE, 5,
                         Thresholds({"medium", "low"}, 0, 10, 5), "high")
WaterTest == RuleConfig(AllFields, TRUE, 5, Thresholds({"low"}, 0, 0, 5),
                        "high")
\* a boundary rule whose entry has a min_area_ha
BreachMin == RuleConfig({"enabled", "min_area_ha", "severity"}, TRUE, 50,
                        NoThresholds, "medium")

RuleConfigs ==
    { EmptyDict,
      ConfigDict({"rules"}, NoRules),
      ConfigDict({"rules"},
                 RulesDict(RuleOrderSet, VegTest, MiningTest, WaterTest,
                           BreachMin)),
      ConfigDict({"rules"},
                 RulesDict(RuleOrderSet, VegNoMin, EmptyConfig, EmptyConfig,
                           EmptyConfig)),
      ConfigDict({"rules"},
                 RulesDict({"vegetation_loss"}, VegUnordered, EmptyConfig,
                           EmptyConfig, EmptyConfig)),
      ConfigDict({"rules"},
                 RulesDict({"vegetation_loss", "boundary_breach"}, VegDisabled,
                           EmptyConfig, EmptyConfig, BreachMin)),
      ConfigDict({"rules"},
                 RulesDict({"mining_expansion", "water_accumulation"},
                           EmptyConfig, MiningTest, WaterTest, EmptyConfig)) }

RuleFiles == {FileAbsent} \cup { JsonDump(c) : c \in RuleConfigs }

ZonePool ==
    { Zone("vegetation_loss", 150, Polygon(5, 12)),
      Zone("vegetation_loss", 60, EmptyGeometry),
      Zone("vegetation_loss", 10, Polygon(20, 30)),
      Zone("mining_expansion", 15, EmptyGeometry),
      Zone("mining_expansion", 4, Polygon(2, 3)),
      Zone("water_accumulation", 8, Polygon(0, 12)) }
ZoneLists == UNION { [1..n -> ZonePool] : n \in 0..MaxZones }

RuleContexts ==
    { Context({}, MineAreaDict({}, EmptyGeometry, 0)),
      Context({"mine_area"}, MineAreaDict({"buffer_km"}, EmptyGeometry, 1)),
      Context({"mine_area"}, MineAreaDict({"boundary"}, Polygon(0, 10), 0)),
      Context({"mine_area"},
              MineAreaDict({"boundary", "buffer_km"}, Polygon(0, 10), 1)) }

InitRules ==
    /\ rl_file \in RuleFiles
    /\ rl_rules = <<>>
    /\ rl_zones = <<>>
    /\ rl_context = Context({}, MineAreaDict({}, EmptyGeometry, 0))
    /\ rl_new_config = EmptyDict
    /\ rl_read = EmptyDict
    /\ rl_updates = 0
    /\ rl_i = 0
    /\ rl_j = 0
    /\ rl_alerts = <<>>
    /\ rl_results = <<>>
    /\ rl_pc = "new"
    /\ PipeIdle
    /\ SelIdle
    /\ EpIdle
    /\ IdxIdle
    /\ CacheIdle
    /\ CfgIdle

\* AlertRuleEngine.__init__
RlConstruct ==
    /\ rl_pc = "new"
    /\ rl_rules' = LoadRules(rl_file, <<>>)
    /\ rl_pc' = "ready"
    /\ UNCHANGED <<rl_file, rl_zones, rl_context, rl_new_config, rl_read,
                   rl_updates, rl_i, rl_j, rl_alerts, rl_results, pipeVars,
                   selVars, epVars, idxVars, cacheVars, cfgVars>>

\* AlertRuleEngine.update_config(new_config)
RlUpdateConfig ==
    /\ rl_pc \in {"ready", "read"}
    /\ rl_updates < MaxUpdates
    /\ \E new_config \in RuleConfigs :
          /\ rl_new_config' = new_config
          /\ rl_file' = JsonDump(new_config)
    /\ rl_rules' = LoadRules(rl_file', rl_rules)
    /\ rl_updates' = rl_updates + 1
    /\ rl_pc' = "ready"
    /\ UNCHANGED <<rl_zones, rl_context, rl_read, rl_i, rl_j, rl_alerts,
                   rl_results, pipeVars, selVars, epVars, idxVars, cacheVars, cfgVars>>

\* AlertRuleEngine.get_config()
RlGetConfig ==
    /\ rl_pc = "ready"
    /\ rl_read' = GetConfig(rl_file)
    /\ rl_pc' = "read"
    /\ UNCHANGED <<rl_file, rl_rules, rl_zones, rl_context, rl_new_config,
                   rl_updates, rl_i, rl_j, rl_alerts, rl_results, pipeVars,
                   selVars, epVars, idxVars, cacheVars, cfgVars>>

\* AlertRuleEngine.evaluate_zones(zones, context): the call
RlEvaluateZones ==
    /\ rl_pc \in {"ready", "read"}
    /\ rl_zones' \in ZoneLists
    /\ rl_context' \in RuleContexts
    /\ rl_i' = 1
    /\ rl_j' = 1
    /\ rl_alerts' = <<>>
    /\ rl_results' = <<>>
    /\ rl_pc' = "evaluating"
    /\ UNCHANGED <<rl_file, rl_rules, rl_new_config, rl_read, rl_updates,
                   pipeVars, selVars, epVars, idxVars, cacheVars, cfgVars>>

\* one pass of the inner loop
RlEvaluate ==
    /\ rl_pc = "evaluating"
    /\ rl_i <= Len(rl_zones)
    /\ Len(rl_rules) > 0
    /\ LET alert == Evaluate(rl_rules[rl_j], rl_zones[rl_i], rl_context)
           next == NextPair(rl_i, rl_j, Len(rl_rules))
       IN  /\ rl_alerts' = Collect(rl_alerts, alert)
           /\ rl_results' = Append(rl_results,
                                   [zone |-> rl_i, rule |-> rl_j,
                                    alert |-> alert])
           /\ rl_i' = next[1]
           /\ rl_j' = next[2]
    /\ UNCHANGED <<rl_file, rl_rules, rl_zones, rl_context, rl_new_config,
                   rl_read, rl_updates, rl_pc, pipeVars, selVars, epVars,
                   idxVars, cacheVars, cfgVars>>

\* "return alerts"
RlReturn ==
    /\ rl_pc = "evaluating"
    /\ rl_i > Len(rl_zones) \/ Len(rl_rules) = 0
    /\ rl_pc' = "returned"
    /\ UNCHANGED <<rl_file, rl_rules, rl_zones, rl_context, rl_new_config,
                   rl_read, rl_updates, rl_i, rl_j, rl_alerts, rl_results,
                   pipeVars, selVars, epVars, idxVars, cacheVars, cfgVars>>

NextRules ==
    \/ RlConstruct
    \/ RlUpdateConfig
    \/ RlGetConfig
    \/ RlEvaluateZones
    \/ RlEvaluate
    \/ RlReturn

SpecRules == InitRules /\ [][NextRules]_vars

(***************************************************************************)
(* Claims about the alert rule engine.                                     *)
(***************************************************************************)
\* the calls of evaluate made so far, each with its rule and its zone
Calls ==
    { [rule |-> rl_rules[r.rule], zone |-> rl_zones[r.zone], alert |-> r.alert]
        : r \in { rl_results[n] : n \in 1..Len(rl_results) } }

ThresholdKinds == {"vegetation_loss", "mining_expansion", "water_accumulation"}
\* the hardcoded minimum area of a zone-type rule, in hundredths of a hectare
DefaultMinArea(kind) == IF kind = "vegetation_loss" THEN 20 ELSE 5
\* the rule has a minimum area: its entry names one, or its class has a default
HasMinArea(rule) ==
    rule.kind \in ThresholdKinds \/ "min_area_ha" \in rule.config.has
MinAreaOf(rule) ==
    IF "min_area_ha" \in rule.config.has THEN rule.config.min_area_ha
    ELSE DefaultMinArea(rule.kind)
Breaches(c) ==
    /\ c.rule.kind = "boundary_breach"
    /\ "enabled" \in c.rule.config.has => c.rule.config.enabled
    /\ "mine_area" \in rl_context.has
    /\ "boundary" \in rl_context.mine_area.has
    /\ c.zone.geometry.type = "Polygon"
    /\ \/ c.zone.geometry.lo < rl_context.mine_area.boundary.lo
             - (IF "buffer_km" \in rl_context.mine_area.has
                THEN rl_context.mine_area.buffer_km ELSE 2)
       \/ c.zone.geometry.hi > rl_context.mine_area.boundary.hi
             + (IF "buffer_km" \in rl_context.mine_area.has
                THEN rl_context.mine_area.buffer_km ELSE 2)

\* C11 as stated: for every rule variant, the boundary breach rule included,
\* a zone whose area is below the rule's min_area_ha yields no alert from it.
C11_AsClaimed ==
    \A c \in Calls :
        HasMinArea(c.rule) /\ c.zone.area_ha < MinAreaOf(c.rule)
            => c.alert = NoAlert

\* C11, amended: a zone whose area is below the min_area_ha of a
\* VegetationLossRule, MiningExpansionRule or WaterAccumulationRule yields no
\* alert from that rule; a BoundaryBreachRule reads no min_area_ha, and an
\* enabled one alerts on every polygon zone that is not within the buffered
\* boundary, whatever the zone's area.
C11_MinAreaGate ==
    \A c \in Calls :
        /\ c.rule.kind \in ThresholdKinds /\ c.zone.area_ha < MinAreaOf(c.rule)
              => c.alert = NoAlert
        /\ Breaches(c) => c.alert.alert_type = "boundary_breach"

\* both halves happen in one call of evaluate_zones: a vegetation rule turns
\* down a zone below its minimum and a boundary rule alerts on a zone below
\* the min_area_ha of its entry
C11_Witness ==
    /\ rl_pc = "returned"
    /\ \E c \in Calls :
          /\ c.rule.kind = "vegetation_loss"
          /\ c.zone.zone_type = "vegetation_loss"
          /\ c.rule.config.enabled
          /\ c.zone.area_ha < MinAreaOf(c.rule)
          /\ c.alert = NoAlert
    /\ \E c \in Calls :
          /\ Breaches(c)
          /\ "min_area_ha" \in c.rule.config.has
          /\ c.zone.area_ha < c.rule.config.min_area_ha
          /\ c.alert # NoAlert

\* the rule is switched on and the zone is of the rule's type
Applies(c) ==
    /\ "enabled" \in c.rule.config.has => c.rule.config.enabled
    /\ c.zone.zone_type = c.rule.kind
\* the entry names all three thresholds, ordered high >= medium >= low
Bucketed(config) ==
    /\ "thresholds" \in config.has
    /\ config.thresholds.has = AllThresholds
    /\ config.thresholds.high >= config.thresholds.medium
    /\ config.thresholds.medium >= config.thresholds.low

\* C12: for a zone-type rule with thresholds high >= medium >= low that is
\* switched on, and a zone of its type whose area is at least min_area_ha,
\* the alert's severity is high when area >= high, medium when
\* medium <= area < high and low when low <= area < medium; with thresholds
\* 1.0, 0.5, 0.2 an area of 1.5 is high, 0.6 is medium, and 0.1 under a
\* minimum of 0.2 gives no alert.
C12_SeverityBuckets ==
    \A c \in Calls :
        c.rule.kind \in ThresholdKinds /\ Applies(c) /\ Bucketed(c.rule.config)
        => LET t == c.rule.config.thresholds
               a == c.zone.area_ha
           IN  /\ a >= MinAreaOf(c.rule) /\ a >= t.high
                  => c.alert.severity = "high"
               /\ a >= MinAreaOf(c.rule) /\ t.medium <= a /\ a < t.high
                  => c.alert.severity = "medium"
               /\ a >= MinAreaOf(c.rule) /\ t.low <= a /\ a < t.medium
                  => c.alert.severity = "low"
               /\ c.rule.config = VegTest
                  => /\ a = 150 => c.alert.severity = "high"
                     /\ a = 60 => c.alert.severity = "medium"
                     /\ a = 10 => c.alert = NoAlert

\* the three cases of the vegetation test in one call of evaluate_zones
C12_Witness ==
    /\ rl_pc = "returned"
    /\ \E c \in Calls :
          c.rule.config = VegTest /\ c.zone.area_ha = 60
          /\ c.alert.severity = "medium"
    /\ \E c \in Calls :
          c.rule.config = VegTest /\ c.zone.area_ha = 150
          /\ c.alert.severity = "high"

\* the alerts of zones i.. against rules j.., zone by zone and rule by rule
RECURSIVE CrossProduct(_, _)
CrossProduct(i, j) ==
    IF i > Len(rl_zones) THEN <<>>
    ELSE IF j > Len(rl_rules) THEN CrossProduct(i + 1, 1)
    ELSE LET alert == Evaluate(rl_rules[j], rl_zones[i], rl_context)
         IN  (IF alert = NoAlert THEN <<>> ELSE <<alert>>)
                 \o CrossProduct(i, j + 1)

\* C13: evaluate_zones returns exactly the alerts of the cross-product of
\* zones and loaded rules, ordered by zone and then by rule; every pair is
\* evaluated once; a rule that is switched off, or gated on another zone
\* type, contributes nothing.
C13_CrossProduct ==
    rl_pc = "returned"
    => /\ rl_alerts = CrossProduct(1, 1)
       /\ Len(rl_results) = Len(rl_zones) * Len(rl_rules)
       /\ \A c \in Calls :
             \/ "enabled" \in c.rule.config.has /\ ~c.rule.config.enabled
             \/ c.rule.kind \in ThresholdKinds
                   /\ c.zone.zone_type # c.rule.kind
             => c.alert = NoAlert

\* one zone yields two alerts, its own class rule's and the boundary breach
C13_Witness ==
    /\ rl_pc = "returned"
    /\ \E n \in 1..Len(rl_results), k \in 1..Len(rl_results) :
          /\ n < k
          /\ rl_results[n].zone = rl_results[k].zone
          /\ rl_results[n].alert.alert_type = "vegetation_loss"
          /\ rl_results[k].alert.alert_type = "boundary_breach"
    /\ \E c \in Calls : c.alert = NoAlert

\* the rules a configuration names, in the order of loading
RulesOf(c) ==
    LET Named(k) == "rules" \in c.has /\ RuleOrder[k] \in c.rules.has
        named == SelectSeq(<<1, 2, 3, 4>>, Named)
    IN  [n \in 1..Len(named) |->
            [kind |-> RuleOrder[named[n]],
             config |-> c.rules[RuleOrder[named[n]]]]]

\* C16: after update_config(c) the loaded rules are exactly those of c, and
\* get_config() returns c.
C16_ReadAfterWrite ==
    rl_updates > 0
    => /\ rl_rules = RulesOf(rl_new_config)
       /\ rl_pc = "read" => rl_read = rl_new_config

\* a configuration that names rules was written over another file and read
C16_Witness ==
    /\ rl_updates > 0
    /\ rl_pc = "read"
    /\ Len(rl_rules) = 2
    /\ rl_read = rl_new_config

KindsLoaded == { rl_rules[n].kind : n \in 1..Len(rl_rules) }

\* C17 as stated: each of the four rule variants takes part in evaluation
\* whether or not the config file, or its entry in "rules", is there.
C17_AsClaimed ==
    rl_pc # "new" => KindsLoaded = RuleOrderSet

\* C17, amended: with no config file the engine loads VegetationLossRule,
\* MiningExpansionRule and WaterAccumulationRule with the hardcoded defaults
\* and no BoundaryBreachRule; with a config file a rule is loaded exactly
\* when "rules" has its entry; a field missing from a loaded entry takes its
\* default: enabled true, min_area_ha 0.2 (vegetation) or 0.05 (mining,
\* water), severity high (boundary breach), and no thresholds, under which
\* the vegetation and mining rules yield no alert and the water rule low.
C17_Defaults ==
    /\ rl_pc # "new" /\ ~rl_file.exists
       => /\ [n \in 1..Len(rl_rules) |-> rl_rules[n].kind]
                = <<"vegetation_loss", "mining_expansion", "water_accumulation">>
          /\ \A n \in 1..Len(rl_rules) :
                /\ rl_rules[n].config.enabled
                /\ rl_rules[n].config.min_area_ha
                       = DefaultMinArea(rl_rules[n].kind)
          /\ rl_rules[1].config.thresholds
                = Thresholds(AllThresholds, 100, 50, 20)
          /\ rl_rules[2].config.thresholds.has = {"medium", "low"}
          /\ rl_rules[2].config.thresholds.medium = 10
          /\ rl_rules[2].config.thresholds.low = 5
          /\ rl_rules[3].config.thresholds.has = {"low"}
          /\ rl_rules[3].config.thresholds.low = 5
    /\ rl_pc # "new" /\ rl_file.exists
       => KindsLoaded = (IF "rules" \in rl_file.text.has
                         THEN rl_file.text.rules.has ELSE {})
    /\ \A c \in Calls :
          c.rule.config.has = {} /\ c.zone.zone_type = c.rule.kind
          => /\ c.rule.kind \in {"vegetation_loss", "mining_expansion"}
                => c.alert = NoAlert
             /\ c.rule.kind = "water_accumulation"
                => IF c.zone.area_ha >= 5 THEN c.alert.severity = "low"
                   ELSE c.alert = NoAlert
    /\ \A c \in Calls :
          c.rule.config.has = {} /\ Breaches(c) => c.alert.severity = "high"
    /\ \A c \in Calls :
          c.rule.config = VegNoMin /\ c.zone.zone_type = "vegetation_loss"
          => (c.alert # NoAlert <=> c.zone.area_ha >= 20)

\* an engine built over a file whose entries are empty has evaluated a water
\* zone and a zone outside the boundary with the defaults
C17_Witness ==
    /\ rl_pc = "returned"
    /\ rl_file.exists
    /\ \E c \in Calls :
          c.rule.config.has = {} /\ c.rule.kind = "water_accumulation"
          /\ c.alert.severity = "low"
    /\ \E c \in Calls :
          c.rule.config.has = {} /\ Breaches(c) /\ c.alert.severity = "high"
    /\ \E c \in Calls :
          c.rule.config = VegNoMin /\ c.zone.area_ha = 10 /\ c.alert = NoAlert

(***************************************************************************)
(* The spectral index functions on their own: one call of calculate_ndvi,  *)
(* calculate_ndwi or calculate_bsi on one pixel of non-negative bands.     *)
(***************************************************************************)
\* largest band value
MaxBand == 4

InitIdx ==
    /\ idx_fn \in {"calculate_ndvi", "calculate_ndwi", "calculate_bsi"}
    /\ idx_bands \in [BandNames -> 0..MaxBand]
    /\ idx_out = Finite(0, 1)
    /\ idx_pc = "call"
    /\ PipeIdle
    /\ SelIdle
    /\ EpIdle
    /\ RuleIdle
    /\ CacheIdle
    /\ CfgIdle

IdxNdvi ==
    /\ idx_pc = "call"
    /\ idx_fn = "calculate_ndvi"
    /\ idx_out' = calculate_ndvi(idx_bands.red, idx_bands.nir)
    /\ idx_pc' = "returned"
    /\ UNCHANGED <<idx_fn, idx_bands, pipeVars, selVars, epVars, ruleVars,
                   cacheVars, cfgVars>>

IdxNdwi ==
    /\ idx_pc = "call"
    /\ idx_fn = "calculate_ndwi"
    /\ idx_out' = calculate_ndwi(idx_bands.green, idx_bands.nir)
    /\ idx_pc' = "returned"
    /\ UNCHANGED <<idx_fn, idx_bands, pipeVars, selVars, epVars, ruleVars,
                   cacheVars, cfgVars>>

IdxBsi ==
    /\ idx_pc = "call"
    /\ idx_fn = "calculate_bsi"
    /\ idx_out' = calculate_bsi(idx_bands.red, idx_bands.blue, idx_bands.nir,
                                idx_bands.swir)
    /\ idx_pc' = "returned"
    /\ UNCHANGED <<idx_fn, idx_bands, pipeVars, selVars, epVars, ruleVars,
                   cacheVars, cfgVars>>

NextIdx == IdxNdvi \/ IdxNdwi \/ IdxBsi

SpecIdx == InitIdx /\ [][NextIdx]_vars

(***************************************************************************)
(* Claims about the spectral indices.                                      *)
(***************************************************************************)
\* numerator and denominator of the index formula of the call
FormulaNum ==
    CASE idx_fn = "calculate_ndvi" -> idx_bands.nir - idx_bands.red
      [] idx_fn = "calculate_ndwi" -> idx_bands.green - idx_bands.nir
      [] OTHER -> (idx_bands.swir + idx_bands.red)
                      - (idx_bands.nir + idx_bands.blue)
FormulaDen ==
    CASE idx_fn = "calculate_ndvi" -> idx_bands.nir + idx_bands.red
      [] idx_fn = "calculate_ndwi" -> idx_bands.green + idx_bands.nir
      [] OTHER -> (idx_bands.swir + idx_bands.red)
                      + (idx_bands.nir + idx_bands.blue)

\* C18: over non-negative bands each of the three indices returns a finite
\* number (no NaN, no infinity) in [-1, 1]; it is 0 where the denominator of
\* its formula is 0 and the value of the formula where it is not.
C18_IndexTotal ==
    idx_pc = "returned"
    => /\ idx_out.kind = "finite"
       /\ idx_out.den > 0
       /\ -idx_out.den <= idx_out.num /\ idx_out.num <= idx_out.den
       /\ FormulaDen = 0 => idx_out.num = 0
       /\ FormulaDen # 0
             => idx_out.num * FormulaDen = FormulaNum * idx_out.den

\* a bare soil index over four zero bands
C18_Witness ==
    /\ idx_pc = "returned"
    /\ idx_fn = "calculate_bsi"
    /\ FormulaDen = 0
    /\ idx_out.num = 0

(***************************************************************************)
(* Claims about run_analysis: a failed mosaic, the grid of the clipped     *)
(* bands, the coverage floor and the names of the files.                   *)
(***************************************************************************)
\* C14: with post-mosaic validation enabled, a band whose mosaic fails the
\* validation, or is not created, ends the run with MosaicError carrying
\* that band's name and the number of scenes of the mosaic; the error
\* leaves run_analysis as it is, the step is not repeated, and no band of
\* the epoch reaches the later stages.
C14_MosaicFatal ==
    error.type = "MosaicError"
    => /\ pc = "failed"
       /\ error.band_name \in BandSet
       /\ error.scene_count = Len(covering_scenes)
       /\ error.scene_count > 1
       /\ path["latest"] = "none"
       /\ grids = NoGrids
       /\ stages[Len(stages)] = "Failed"
       /\ stages[Len(stages) - 1] = "Mosaicking"
       /\ \A n \in 1..Len(stages) :
             stages[n] \notin {"Aligning", "ComputingIndices",
                               "DetectingChange", "EvaluatingAlerts", "Done"}

\* the mosaic of the latest epoch has failed on band B11 after the baseline
\* mosaic was built
C14_Witness ==
    /\ pc = "failed"
    /\ error.type = "MosaicError"
    /\ error.band_name = "B11"
    /\ error.scene_count = 2
    /\ path["baseline"] = "mosaic"
    /\ FileName(OutputPrefix(run_id, "latest"), "B04", "mosaic") \in artifacts

\* C15 as stated, for the runs whose rasters can be clipped: once the first
\* band (baseline B04) is clipped, the nine other bands are on its grid, or
\* the run has failed on a raster.
C15_AsClaimed ==
    grids[FirstSlot] # NoGrid
    => \/ \A s \in Slots : grids[s] = grids[FirstSlot]
       \/ pc = "failed" /\ error.cause = "ValueError"

\* the second clip of stage 2 has raised TypeError
C15_Witness ==
    /\ pc = "failed"
    /\ error.cause = "TypeError"
    /\ grids[FirstSlot] # NoGrid
    /\ grids[<<"baseline", "B08">>] = NoGrid
    /\ db_conn = "sqlite3.Row"

\* C19 as stated: the bands of an epoch are never those of a single scene
\* whose footprint covers less than MINIMUM_REQUIRED of the boundary,
\* values from MOSAIC_THRESHOLD up to MINIMUM_REQUIRED included: a run with
\* such a scene has failed with InsufficientCoverageError before the
\* download.
C19_AsClaimed ==
    \A e \in Epochs :
        path[e] = "direct" => AtLeast(CoverageOf(e), MINIMUM_REQUIRED)

\* the bands of a baseline scene covering 93% were downloaded and the run
\* went on to stage 2
C19_Witness ==
    /\ path["baseline"] = "direct"
    /\ AtLeast(baseline_footprint_coverage, MOSAIC_THRESHOLD)
    /\ Below(baseline_footprint_coverage, MINIMUM_REQUIRED)
    /\ "clip" \in work
    /\ db_conn = "sqlite3.Row"

\* run identifiers a concurrent run may have
OtherRunIds == {None, "7", "8"}
\* the files a run of identifier rid can write
FilesOfRun(rid) ==
    UNION { MosaicFiles(OutputPrefix(rid, e), BandSet, TRUE) : e \in Epochs }
        \cup (IF Truthy(rid) THEN IndexFiles(rid) ELSE {})

\* C20 as stated: every file the run writes carries the run's identifier in
\* its name, whatever run_id is, so that no concurrent run writes it, a run
\* without run_id included.
C20_AsClaimed ==
    /\ \A f \in artifacts : f.run # None
    /\ artifacts \cap FilesOfRun(None) = {}

\* C20, amended: a run with a run_id (other than None or 0) names every
\* mosaic, clipped mosaic and index file it writes with that run_id, and
\* writes no file that a run with another run_id, or with none, writes; a
\* run with no run_id names its mosaics by epoch and band only and writes no
\* index file.
C20_RunNamespaced ==
    /\ run_id # None
       => /\ \A f \in artifacts : f.run = run_id
          /\ \A other \in OtherRunIds \ {run_id} :
                artifacts \cap FilesOfRun(other) = {}
    /\ run_id = None
       => \A f \in artifacts : f.run = None /\ f.kind # "index"

\* a run with a run_id has written mosaics, clipped mosaics and index files
C20_Witness ==
    /\ pc = "done"
    /\ run_id # None
    /\ \E f \in artifacts : f.kind = "mosaic"
    /\ \E f \in artifacts : f.kind = "clipped"
    /\ \E f \in artifacts : f.kind = "index"

(***************************************************************************)
(* When and what the greedy scene selector returns (specification SpecSel).*)
(***************************************************************************)
\* the rows of the table with a footprint that pass the cloud filter of
\* the query
CatalogCandidates ==
    { i \in 1 .. Len(sel_table) : InWhere(QueryRow(sel_table, i, sel_target)) }

\* how many rows the query hands to the loop
FetchLimit == sel_params.max_scenes * SCENE_SEARCH_MULTIPLIER
Fetched ==
    IF Cardinality(CatalogCandidates) < FetchLimit
    THEN Cardinality(CatalogCandidates) ELSE FetchLimit

\* how many rows the loop has been through
Examined == sel_i - 1

SelectorReturned == sel_pc = "returned" /\ sel_fn = "_find_covering_scenes"

\* C22, as claimed: the selector returns only with coverage_percent at
\* least min_coverage_percent, or with max_scenes scenes selected, or with
\* every scene of the catalog that has a footprint and passes the cloud
\* filter examined
C22_AsClaimed ==
    SelectorReturned =>
        \/ AtLeast(sel_state.coverage_percent, sel_params.min_coverage_percent)
        \/ Len(sel_state.selected_scenes) >= sel_params.max_scenes
        \/ Examined = Cardinality(CatalogCandidates)

\* C22: the selector returns only with coverage_percent at least
\* min_coverage_percent, or with max_scenes scenes selected, or with every
\* row of its query examined; the query fetches the scenes with a
\* footprint that pass the cloud filter, nearest in date first, and no
\* more than max_scenes * SCENE_SEARCH_MULTIPLIER of them.
C22_StopConditions ==
    SelectorReturned =>
        \/ AtLeast(sel_state.coverage_percent, sel_params.min_coverage_percent)
        \/ Len(sel_state.selected_scenes) >= sel_params.max_scenes
        \/ Examined = Fetched

\* C22, witness: the selector has returned short of coverage and of
\* max_scenes, having examined the rows fetched and not all the catalog's
\* candidates
C22_Witness ==
    /\ SelectorReturned
    /\ Below(sel_state.coverage_percent, sel_params.min_coverage_percent)
    /\ Len(sel_state.selected_scenes) < sel_params.max_scenes
    /\ Examined = FetchLimit
    /\ Cardinality(CatalogCandidates) > FetchLimit

\* the three tests of the loop on a fetched row: date tolerance, known
\* cloud cover, footprint intersecting the boundary
PassesTests(row) ==
    /\ row.date_diff <= sel_params.max_date_diff_days
    /\ ~(row.cloud # NoCloud /\ row.cloud > MAX_CLOUD_COVER)
    /\ row.fp.kind = "geom"
    /\ Boundary \cap row.fp.cells # {}

\* the row adds to the coverage gathered so far
AddsCoverage(row) ==
    \/ sel_state.covered_none
    \/ (Boundary \cap row.fp.cells) \ sel_state.covered_geom # {}

\* every scene returned passes the three tests
ReturnedPassTests ==
    SelectorReturned =>
        \A k \in 1 .. Len(sel_state.selected_scenes) :
            PassesTests(QueryRow(sel_table, sel_state.selected_scenes[k], sel_target))

\* a pass of the loop over a row that passes the three tests and adds
\* coverage selects the row
PassingRowSelected ==
    (/\ sel_pc = "loop"
     /\ sel_fn = "_find_covering_scenes"
     /\ sel_i' = sel_i + 1
     /\ PassesTests(sel_rows[sel_i])
     /\ AddsCoverage(sel_rows[sel_i]))
    => sel_state'.selected_scenes = Append(sel_state.selected_scenes, sel_rows[sel_i].id)

\* C23, as claimed: no scene returned by the selector is farther than
\* max_date_diff_days from the target, has a known cloud_cover above the
\* limit or a footprint that misses the boundary, and a scene that passes
\* the three tests and adds coverage is not skipped for any other reason
C23_AsClaimed == []ReturnedPassTests /\ [][PassingRowSelected]_vars

\* C23, the case: over sqlite3.Row rows the selector has returned no scene
\* although the first row it fetched passes the three tests
C23_Witness ==
    /\ SelectorReturned
    /\ sel_params.rows_kind = "sqlite3.Row"
    /\ sel_rows # <<>>
    /\ PassesTests(sel_rows[1])
    /\ sel_state.selected_scenes = <<>>
    /\ sel_state.errors > 0

\* C23 on rows that have .get: what the loop does once line 262 does not
\* raise
C23_WithMappingRows ==
    /\ []ReturnedPassTests
    /\ [][sel_params.rows_kind = "mapping" => PassingRowSelected]_vars

(***************************************************************************)
(* The anchor and the order of the epochs (specification SpecEpoch).       *)
(***************************************************************************)
\* minutes between the newest and the oldest scene of an epoch
Span(ep) ==
    LET ts == EpochTimes(ep)
    IN IF ts = {} THEN 0
       ELSE (CHOOSE a \in ts : \A b \in ts : a >= b)
            - (CHOOSE a \in ts : \A b \in ts : a <= b)

\* a pass of the grouping loop in which the scene joins the current epoch
JoinStep ==
    /\ ep_pc = "loop"
    /\ ep_i' = ep_i + 1
    /\ current_epoch' = Append(current_epoch, ep_recs[ep_i])
    /\ current_epoch # <<>>

\* C24, as claimed: the grouper chains scenes against a moving anchor: a
\* scene that joins the epoch becomes what the next scene is compared with
C24_AsClaimed ==
    [][JoinStep => current_epoch_time' = ParseIsoDatetime(ep_recs[ep_i].acquired_at)]_vars

\* C24: the grouper compares every scene with the timestamp of the epoch's
\* first scene, which a joining scene leaves unchanged; every scene of an
\* epoch is within the tolerance of that first scene, so the newest and
\* the oldest scene of no epoch are more than twice the tolerance apart.
C24_FixedAnchor ==
    /\ [][JoinStep => /\ current_epoch_time' = current_epoch_time
                      /\ current_epoch_time
                           = ParseIsoDatetime(current_epoch[1].acquired_at)]_vars
    /\ [](\A k \in 1 .. Len(epochs) : Span(epochs[k]) <= 2 * ep_tol)
    /\ [](Span(current_epoch) <= 2 * ep_tol)

\* C24, witness: three scenes, each within the tolerance of the one before
\* it and the last farther than the tolerance from the first, have been
\* grouped into more than one epoch
C24_Witness ==
    /\ ep_pc = "sets"
    /\ Len(ep_recs) = 3
    /\ \A i \in 1 .. 3 : Grouped(ep_recs[i])
    /\ \A i \in 1 .. 2 :
          Abs(ParseIsoDatetime(ep_recs[i].acquired_at)
              - ParseIsoDatetime(ep_recs[i + 1].acquired_at)) <= ep_tol
          /\ ParseIsoDatetime(ep_recs[i].acquired_at)
               # ParseIsoDatetime(ep_recs[i + 1].acquired_at)
    /\ ParseIsoDatetime(ep_recs[1].acquired_at)
         - ParseIsoDatetime(ep_recs[3].acquired_at) > ep_tol
    /\ Len(epochs) = 2

\* the newest acquisition time among the scenes of an epoch
Newest(ep) == CHOOSE a \in EpochTimes(ep) : \A b \in EpochTimes(ep) : a >= b

GrouperReturned == ep_pc \in {"sets", "selected", "select_raised"}

\* the coverage sets are newest first, each under the time of the newest
\* scene of its epoch
NewestFirst ==
    /\ \A k \in 1 .. Len(coverage_sets) - 1 :
          coverage_sets[k].epoch_time > coverage_sets[k + 1].epoch_time
    /\ \A k \in 1 .. Len(epochs) :
          ParseIsoDatetime(epochs[k][1].acquired_at) = Newest(epochs[k])
    /\ \A k \in 1 .. Len(coverage_sets) :
          \E j \in 1 .. Len(epochs) :
             /\ coverage_sets[k].epoch_time = Newest(epochs[j])
             /\ coverage_sets[k].scene_ids = SceneIds(SelectSeq(epochs[j], Loads))

\* C25, as claimed: build_coverage_sets and
\* build_coverage_sets_from_candidates return their CoverageSets newest
\* first, epoch_time strictly decreasing and each the acquisition time of
\* the newest scene of its epoch, and select_latest_two_sets returns a
\* latest set of a later epoch than the baseline's
C25_AsClaimed ==
    /\ GrouperReturned => NewestFirst
    /\ ep_pc = "selected" => latest_set.epoch_time > baseline_set.epoch_time

\* C25, the case: build_coverage_sets has returned two sets or more from a
\* table that holds acquired_at texts written in two ways, and the latest
\* two have been selected
C25_Witness ==
    /\ ep_fn = "build_coverage_sets"
    /\ ep_pc = "selected"
    /\ \E i, j \in 1 .. Len(ep_recs) :
          /\ ep_recs[i].acquired_at.fmt = "iso"
          /\ ep_recs[j].acquired_at.fmt = "unpadded"
    /\ latest_set.epoch_time < baseline_set.epoch_time

\* C25 where the rows are in the order of their times: the candidates
\* variant, which sorts by the parsed time, and tables whose texts are all
\* written alike
C25_InTimeOrder ==
    (\/ ep_fn = "build_coverage_sets_from_candidates"
     \/ \A i \in 1 .. Len(ep_input) : ep_input[i].acquired_at.fmt # "unpadded")
    => C25_AsClaimed

(***************************************************************************)
(* The order of the thresholds of the loaded rules (specification          *)
(* SpecRules).                                                             *)
(***************************************************************************)
\* the thresholds an entry names are in the order high >= medium >= low
Ordered(config) ==
    LET t == Get(config, "thresholds", NoThresholds)
    IN /\ {"high", "medium"} \subseteq t.has => t.high >= t.medium
       /\ {"medium", "low"} \subseteq t.has => t.medium >= t.low
       /\ {"high", "low"} \subseteq t.has => t.high >= t.low

\* C26, as claimed: in every state of the rule engine, at construction and
\* after any sequence of update_config calls, the thresholds of every
\* loaded rule satisfy high >= medium >= low
C26_AsClaimed ==
    \A k \in 1 .. Len(rl_rules) : Ordered(rl_rules[k].config)

\* C26, the case: update_config has been given an entry with high below
\* medium, the engine has loaded it, and a zone between the two has been
\* given severity high
C26_Witness ==
    /\ rl_updates > 0
    /\ \E k \in 1 .. Len(rl_rules) : ~Ordered(rl_rules[k].config)
    /\ \E c \in Calls :
          /\ ~Ordered(c.rule.config)
          /\ c.zone.area_ha < c.rule.config.thresholds.medium
          /\ c.alert.severity = "high"

(***************************************************************************)
(* The zones of change detection (specification Spec).                     *)
(***************************************************************************)
\* the zones of one mask, were every feature whose area is not below the
\* minimum of its class kept
RECURSIVE NotBelowMinimum(_, _)
NotBelowMinimum(feats, mask) ==
    IF feats = <<>> THEN <<>>
    ELSE LET feat == Head(feats)
         IN (IF feat.mask = mask /\ ~(CalculateArea(feat) < MinZoneArea(mask))
             THEN <<Zone(mask, CalculateArea(feat), feat.geometry)>> ELSE <<>>)
            \o NotBelowMinimum(Tail(feats), mask)

\* C27, as claimed: a vectorized polygon becomes a Zone exactly when its
\* area is not below the minimum of its class (0.1 ha for vegetation and
\* mining, 0.05 ha for water), a polygon of exactly the minimum included,
\* and every Zone has area_ha >= 0
C27_AsClaimed ==
    /\ zones = NotBelowMinimum(features, "vegetation_loss")
               \o NotBelowMinimum(features, "mining_expansion")
               \o NotBelowMinimum(features, "water_accumulation")
    /\ \A k \in 1 .. Len(zones) : zones[k].area_ha >= 0

\* C27, the case: change detection has run over a polygon of exactly the
\* minimum area of its class, and no zone has been made of it
C27_Witness ==
    /\ "detect" \in work
    /\ pc = "alerts"
    /\ \E i \in 1 .. Len(features) :
          /\ features[i].measurable
          /\ features[i].area = MinZoneArea(features[i].mask)
          /\ \A k \in 1 .. Len(zones) : zones[k].geometry # features[i].geometry

\* C27 for polygons that are not exactly at a minimum: those below are
\* discarded, those above are kept, and every Zone has area_ha >= 0
C27_AwayFromMinimum ==
    (\A i \in 1 .. Len(features) :
        CalculateArea(features[i]) # MinZoneArea(features[i].mask))
    => C27_AsClaimed

(***************************************************************************)
(* The stage an AnalysisError carries to the caller (specification Spec).  *)
(***************************************************************************)
\* the run has passed the early validation of lines 416-436
PassedValidation ==
    ValidationFailure(db_conn, mine_area, baseline_scene, latest_scene, run_id)
        = NoError

\* C28, as claimed: an AnalysisError raised by a stage of run_analysis
\* reaches the caller with the stage and the run_id it was raised with:
\* stage "initialization" when mine_area has no boundary, stage
\* "validation" when a scene or the mine area is missing
C28_AsClaimed ==
    /\ (pc = "failed" /\ PassedValidation /\ mine_area = "no_boundary")
          => /\ error.type = "AnalysisError"
             /\ error.stage = "initialization"
             /\ error.run_id = run_id
    /\ (pc = "failed" /\ ~PassedValidation /\ error.type = "AnalysisError")
          => /\ error.stage = "validation"
             /\ error.run_id = run_id

\* C28, the case: a run over a mine area without boundary has failed, and
\* the AnalysisError raised for it has reached the caller under the stage
\* "unknown"
C28_Witness ==
    /\ pc = "failed"
    /\ PassedValidation
    /\ mine_area = "no_boundary"
    /\ error.type = "AnalysisError"
    /\ error.stage = "unknown"
    /\ error.cause = "AnalysisError"
    /\ error.run_id = run_id

(***************************************************************************)
(* The scenes the two composites are made of (specification Spec).         *)
(***************************************************************************)
\* the uris of the scenes the composite of an epoch is made of: those the
\* selector returned where the epoch was mosaicked, the epoch's own scene
\* where it was downloaded
ComposedOf(e) ==
    IF path[e] = "mosaic"
    THEN LET found == FindCoveringScenes(catalog, SceneOf(e).acquired_at,
                                         RunParams(db_conn)).selected_scenes
         IN {SceneUri(found[k]) : k \in 1 .. Len(found)}
    ELSE {SceneOf(e).uri}

BothBySelector == path["baseline"] = "mosaic" /\ path["latest"] = "mosaic"

\* C29, as claimed: whenever a run reaches change detection with both
\* composites resolved by the scene selector, the scene uris of the
\* baseline composite differ from those of the latest composite
C29_AsClaimed ==
    (pc = "detect" /\ BothBySelector)
        => ComposedOf("baseline") # ComposedOf("latest")

\* C29, the case: a run has reached change detection with two mosaics made
\* of the same scenes, its baseline_scene and latest_scene having
\* different uris
C29_Witness ==
    /\ pc = "detect"
    /\ BothBySelector
    /\ baseline_scene.uri # latest_scene.uri
    /\ ComposedOf("baseline") = ComposedOf("latest")
    /\ Cardinality(ComposedOf("baseline")) > 1

(***************************************************************************)
(* Runs that download the same band concurrently (specification           *)
(* SpecCache): each run is at its exists-check, at its open, between two   *)
(* chunks, or past the download and about to read the file.  The file may  *)
(* be in the cache, whole, from an earlier run.                            *)
(***************************************************************************)
InitCache ==
    /\ dl_file \in {NoBandFile, WholeBandFile}
    /\ dl_pc = [r \in Runs |-> "check"]
    /\ dl_pos = [r \in Runs |-> 0]
    /\ dl_read = [r \in Runs |-> "none"]
    /\ PipeIdle
    /\ SelIdle
    /\ EpIdle
    /\ RuleIdle
    /\ IdxIdle
    /\ CfgIdle

\* line 63: if not local_path.exists()
DlExists(r) ==
    /\ dl_pc[r] = "check"
    /\ dl_pc' = [dl_pc EXCEPT ![r] = IF dl_file.exists THEN "read" ELSE "get"]
    /\ UNCHANGED <<dl_file, dl_pos, dl_read, pipeVars, selVars, epVars,
                   ruleVars, idxVars, cfgVars>>

\* lines 65-69: the request for the body, which may fail, and the open of
\* the file for writing
DlOpen(r) ==
    /\ dl_pc[r] = "get"
    /\ \/ /\ dl_file' = OpenWb(dl_file)
          /\ dl_pos' = [dl_pos EXCEPT ![r] = 1]
          /\ dl_pc' = [dl_pc EXCEPT ![r] = "write"]
       \/ /\ dl_pc' = [dl_pc EXCEPT ![r] = "raised"]
          /\ UNCHANGED <<dl_file, dl_pos>>
    /\ UNCHANGED <<dl_read, pipeVars, selVars, epVars, ruleVars, idxVars,
                   cfgVars>>

\* lines 71-75: one chunk is written, or the connection drops and the
\* exception leaves the function, the file staying as it is
DlWrite(r) ==
    /\ dl_pc[r] = "write"
    /\ \/ /\ dl_file' = WriteChunk(dl_file, dl_pos[r])
          /\ dl_pos' = [dl_pos EXCEPT ![r] = @ + 1]
          /\ dl_pc' = [dl_pc EXCEPT ![r] = IF dl_pos[r] = MaxChunks
                                            THEN "read" ELSE "write"]
       \/ /\ dl_pc' = [dl_pc EXCEPT ![r] = "raised"]
          /\ UNCHANGED <<dl_file, dl_pos>>
    /\ UNCHANGED <<dl_read, pipeVars, selVars, epVars, ruleVars, idxVars,
                   cfgVars>>

\* the run goes on with downloaded_paths[band] and reads the band file
DlRead(r) ==
    /\ dl_pc[r] = "read"
    /\ dl_read' = [dl_read EXCEPT ![r] = ReadBand(dl_file)]
    /\ dl_pc' = [dl_pc EXCEPT ![r] = "done"]
    /\ UNCHANGED <<dl_file, dl_pos, pipeVars, selVars, epVars, ruleVars,
                   idxVars, cfgVars>>

NextCache == \E r \in Runs : DlExists(r) \/ DlOpen(r) \/ DlWrite(r) \/ DlRead(r)

SpecCache == InitCache /\ [][NextCache]_vars

\* C21, as claimed: under every interleaving of exists-check, chunked
\* write and read, each run that goes on past the download reads the
\* complete band file, never one partly written by another run or left by
\* an earlier failed download
C21_AsClaimed == \A r \in Runs : dl_read[r] # "partial"

\* C21, the case: a run has found the file in place, taken it as cached
\* and read it while another run was between two chunks of it
C21_Witness ==
    \E r, w \in Runs :
        /\ dl_pc[r] = "done"
        /\ dl_pos[r] = 0
        /\ dl_read[r] = "partial"
        /\ dl_pc[w] = "write"

\* C21, the other case: a run has read what a failed download left behind
C21_AfterFailedDownload ==
    \E r, w \in Runs :
        /\ dl_read[r] = "partial"
        /\ dl_pos[r] = 0
        /\ dl_pc[w] = "raised"
        /\ dl_pos[w] > 0

(***************************************************************************)
(* A rule-configuration update concurrent with a reader (specification     *)
(* SpecConfig): PUT /alert-rules constructs an engine and calls            *)
(* update_config, which opens the file for writing, dumps the new          *)
(* configuration and reloads; meanwhile a run_analysis reaches its alert   *)
(* stage and constructs an engine, or a get_config reads the file.         *)
(***************************************************************************)
InitConfig ==
    /\ cf_old \in RuleFiles
    /\ cf_file = cf_old
    /\ cf_flushed = "complete"
    /\ cf_new \in RuleConfigs
    /\ cf_upd_pc = "construct"
    /\ cf_upd_rules = <<>>
    /\ cf_reader \in {"run_analysis", "get_config"}
    /\ cf_reader_pc = "call"
    /\ cf_seen = NothingSeen
    /\ PipeIdle
    /\ SelIdle
    /\ EpIdle
    /\ RuleIdle
    /\ IdxIdle
    /\ CacheIdle

\* main.py line 1615: engine = AlertRuleEngine()
CfConstruct ==
    /\ cf_upd_pc = "construct"
    /\ cf_upd_rules' = LoadRules(cf_file, <<>>)
    /\ cf_upd_pc' = "open"
    /\ UNCHANGED <<cf_file, cf_flushed, cf_old, cf_new, cf_reader,
                   cf_reader_pc, cf_seen, pipeVars, selVars, epVars, ruleVars,
                   idxVars, cacheVars>>

\* alert_rules.py line 338: open(self.config_path, 'w') creates the file
\* or empties it
CfOpen ==
    /\ cf_upd_pc = "open"
    /\ cf_file' = JsonDump(cf_new)
    /\ cf_flushed' = "empty"
    /\ cf_upd_pc' = "dump"
    /\ UNCHANGED <<cf_old, cf_new, cf_upd_rules, cf_reader, cf_reader_pc,
                   cf_seen, pipeVars, selVars, epVars, ruleVars, idxVars,
                   cacheVars>>

\* line 339: json.dump writes the document piece by piece; a full buffer
\* goes to the file before the dump has ended
CfFlush ==
    /\ cf_upd_pc = "dump"
    /\ cf_flushed = "empty"
    /\ cf_flushed' = "partial"
    /\ UNCHANGED <<cf_file, cf_old, cf_new, cf_upd_pc, cf_upd_rules,
                   cf_reader, cf_reader_pc, cf_seen, pipeVars, selVars, epVars,
                   ruleVars, idxVars, cacheVars>>

\* the end of the with block: the rest is written and the file closed
CfClose ==
    /\ cf_upd_pc = "dump"
    /\ cf_flushed' = "complete"
    /\ cf_upd_pc' = "reload"
    /\ UNCHANGED <<cf_file, cf_old, cf_new, cf_upd_rules, cf_reader,
                   cf_reader_pc, cf_seen, pipeVars, selVars, epVars, ruleVars,
                   idxVars, cacheVars>>

\* line 340: self.load_rules()
CfReload ==
    /\ cf_upd_pc = "reload"
    /\ cf_upd_rules' = LoadRules(cf_file, cf_upd_rules)
    /\ cf_upd_pc' = "done"
    /\ UNCHANGED <<cf_file, cf_flushed, cf_old, cf_new, cf_reader,
                   cf_reader_pc, cf_seen, pipeVars, selVars, epVars, ruleVars,
                   idxVars, cacheVars>>

\* the reader's read of the file: AlertRuleEngine() of the alert stage
\* (analysis_pipeline.py line 742), or get_config (alert_rules.py 329-334)
CfRead ==
    /\ cf_reader_pc = "call"
    /\ cf_seen' = IF cf_reader = "run_analysis"
                  THEN ConstructOver(cf_file, cf_flushed)
                  ELSE GetConfigOver(cf_file, cf_flushed)
    /\ cf_reader_pc' = IF cf_seen'.raised = "none" THEN "returned" ELSE "raised"
    /\ UNCHANGED <<cf_file, cf_flushed, cf_old, cf_new, cf_upd_pc,
                   cf_upd_rules, cf_reader, pipeVars, selVars, epVars, ruleVars,
                   idxVars, cacheVars>>

NextConfig == CfConstruct \/ CfOpen \/ CfFlush \/ CfClose \/ CfReload \/ CfRead

SpecConfig == InitConfig /\ [][NextConfig]_vars

\* what a reader takes from the complete old or the complete new file
SeenOf(file) ==
    IF cf_reader = "run_analysis" THEN ConstructOver(file, "complete")
    ELSE GetConfigOver(file, "complete")

\* C30, as claimed: under every interleaving of a configuration update
\* with a running analysis or a get_config, the reader sees either the
\* complete old or the complete new configuration; the update never makes
\* the alert stage fail or load an empty or partial rule set
C30_AsClaimed ==
    cf_reader_pc # "call" =>
        /\ cf_reader_pc = "returned"
        /\ cf_seen \in {SeenOf(cf_old), SeenOf(JsonDump(cf_new))}

\* C30, the case: the alert stage of a run has constructed its engine
\* between the open and the close of update_config, and json.load has
\* raised
C30_Witness ==
    /\ cf_reader = "run_analysis"
    /\ cf_reader_pc = "raised"
    /\ cf_seen.raised = "JSONDecodeError"
    /\ cf_upd_pc = "dump"

\* C30 for a reader that reads before the open or after the close
C30_OutsideTheWrite ==
    [][(cf_reader_pc = "call" /\ cf_reader_pc' # "call" /\ cf_upd_pc # "dump")
       => /\ cf_reader_pc' = "returned"
          /\ cf_seen' \in {SeenOf(cf_old), SeenOf(JsonDump(cf_new))}]_vars

====
